---------------------------- MODULE Spec2Model ----------------------------
(***************************************************************************)
(* Resume scoring pipeline of resume_analyzer: the text generation client  *)
(* (LLMInterface.generate_text), the remote scoring attempt with its JSON  *)
(* extraction (LLMInterface.analyze_resume), the keyword scorer            *)
(* (analyze_with_mock_llm), the orchestration with its validation gate     *)
(* (ResumeAnalyzer.analyze_resume, _fallback_analysis), the ranking        *)
(* (select_top_candidates), the batch loop                                 *)
(* (ResumeAnalyzerApp.analyze_resumes), the generation of resumes          *)
(* (DataGenerator.generate_resumes) and the report writers                 *)
(* (save_results_to_json, save_results_to_markdown).                       *)
(*                                                                         *)
(* Conventions.  A Python value is a record with a tag t.  A number is     *)
(* kept in hundredths (7.5 is 750).  A str is a sequence of one-character  *)
(* strings; a Cyrillic letter is spelled "cy:<latin>" (upper case          *)
(* "CY:<latin>"), and the comment above a text gives it with <latin> for   *)
(* each Cyrillic word.  A dict is a function from its keys (str) to        *)
(* values.  A call either returns or raises: Return(v), Raise(exc, msg).   *)
(***************************************************************************)
EXTENDS Integers, Sequences, FiniteSets, TLC

VARIABLES
    pc,              \* position of the running operation
    op,              \* the operation the caller invoked
    resume_text,     \* argument of ResumeAnalyzer.analyze_resume
    vacancy_text,    \* argument of ResumeAnalyzer.analyze_resume
    max_retries,     \* argument of generate_text
    attempt,         \* loop variable of generate_text
    calls,           \* number of chat.completions.create calls made
    waits,           \* the time.sleep(wait_time) calls of generate_text, in ms
    last_reply,      \* what the latest chat.completions.create call did
    gen_result,      \* Return(the text generate_text returned)
    llm_outcome,     \* outcome of LLMInterface.analyze_resume
    outcome,         \* outcome of ResumeAnalyzer.analyze_resume
    branch,          \* which return statement of analyze_resume was taken
    sleeps,          \* the fixed pauses (time.sleep(3), time.sleep(delay)), in seconds
    resume_files,    \* analyze_resumes: the listing of the resumes directory;
                     \* generate_resumes: the list of created files
    analyzed,        \* analyze_resumes: per file, the resume read and the remote text
    results,         \* analyze_resumes / select_top_candidates: the results list
    top_n,           \* select_top_candidates: argument
    ranked,          \* outcome of sorted(...) or of select_top_candidates
    count,           \* generate_resumes: argument
    quality_levels,  \* generate_resumes: the list of tiers after random.shuffle
    generated,       \* generate_resumes: per index, what generation and writing did
    json_data,       \* save_results_to_json: the object handed to json.dump
    markdown_content,\* save_results_to_markdown: the text built, as f-string parts
    saved,           \* outcome of a writer
    disk,            \* the vacancy file and the resumes directory
    num_resumes,     \* ResumeAnalyzerApp.num_resumes
    data_calls,      \* generate_data: per call, the disk before it and what it wrote
    app_outcome,     \* outcome of ResumeAnalyzerApp.run
    log,             \* the lines of the log file
    log_data         \* outcome of parse_log_file

vars == << pc, op, resume_text, vacancy_text, max_retries, attempt, calls, waits,
           last_reply, gen_result, llm_outcome, outcome, branch, sleeps,
           resume_files, analyzed, results, top_n, ranked, count, quality_levels,
           generated, json_data, markdown_content, saved, disk, num_resumes,
           data_calls, app_outcome, log, log_data >>

---------------------------------------------------------------------------
(* Python values and call outcomes *)

PyNone == [t |-> "none"]

Num(v) == [t |-> "num", v |-> v]

\* A Python int n; Num is a float.  Both are numbers with the value in
\* hundredths, and they differ in how str() prints them.
PyInt(n) == [t |-> "num", v |-> n * 100, int |-> TRUE]

is_int(value) == "int" \in DOMAIN value

Str(s) == [t |-> "str", v |-> s]

Bytes(s) == [t |-> "bytes", v |-> s]

List(items) == [t |-> "list", items |-> items]

Dict(d) == [t |-> "dict", d |-> d]

Return(v) == [st |-> "return", val |-> v]

Raise(exc, msg) == [st |-> "raise", exc |-> exc, msg |-> msg]

Absent == [st |-> "absent"]

\* key in d, for a dict
HasKey(d, key) == key \in DOMAIN d.d

\* d.get(key): the value, or None
Get(d, key) == IF HasKey(d, key) THEN d.d[key] ELSE PyNone

\* bool(v) as `not v` uses it
Truthy(v) ==
    CASE v.t = "none" -> FALSE
      [] v.t = "num" -> v.v # 0
      [] v.t = "str" -> v.v # << >>
      [] v.t = "bytes" -> v.v # << >>
      [] v.t = "list" -> v.items # << >>
      [] v.t = "dict" -> DOMAIN v.d # {}

---------------------------------------------------------------------------
(* str operations on sequences of characters *)

Whitespace == {" ", "\n", "\t"}

RECURSIVE lstrip(_)
lstrip(s) ==
    IF s # << >> /\ Head(s) \in Whitespace THEN lstrip(Tail(s)) ELSE s

RECURSIVE rstrip(_)
rstrip(s) ==
    IF s # << >> /\ s[Len(s)] \in Whitespace
    THEN rstrip(SubSeq(s, 1, Len(s) - 1))
    ELSE s

\* s.strip()
strip(s) == rstrip(lstrip(s))

UpperChars ==
    << "A", "B", "C", "D", "E", "F", "G", "H", "I", "J", "K", "L", "M", "N", "O", "P",
       "Q", "R", "S", "T", "U", "V", "W", "X", "Y", "Z", "CY:a", "CY:b", "CY:v", "CY:g",
       "CY:d", "CY:e", "CY:yo", "CY:zh", "CY:z", "CY:i", "CY:j", "CY:k", "CY:l", "CY:m",
       "CY:n", "CY:o", "CY:p", "CY:r", "CY:s", "CY:t", "CY:u", "CY:f", "CY:h", "CY:c",
       "CY:ch", "CY:sh", "CY:shch", "CY:hard", "CY:y", "CY:soft", "CY:eh", "CY:yu", "CY:ya" >>

LowerChars ==
    << "a", "b", "c", "d", "e", "f", "g", "h", "i", "j", "k", "l", "m", "n", "o", "p",
       "q", "r", "s", "t", "u", "v", "w", "x", "y", "z", "cy:a", "cy:b", "cy:v", "cy:g",
       "cy:d", "cy:e", "cy:yo", "cy:zh", "cy:z", "cy:i", "cy:j", "cy:k", "cy:l", "cy:m",
       "cy:n", "cy:o", "cy:p", "cy:r", "cy:s", "cy:t", "cy:u", "cy:f", "cy:h", "cy:c",
       "cy:ch", "cy:sh", "cy:shch", "cy:hard", "cy:y", "cy:soft", "cy:eh", "cy:yu", "cy:ya" >>

lower_char(c) ==
    IF \E i \in 1..Len(UpperChars) : UpperChars[i] = c
    THEN LowerChars[CHOOSE i \in 1..Len(UpperChars) : UpperChars[i] = c]
    ELSE c

\* s.lower()
lower(s) == [i \in 1..Len(s) |-> lower_char(s[i])]

\* sub in s, for two str
Contains(s, sub) ==
    \E i \in 0..(Len(s) - Len(sub)) :
        \A j \in 1..Len(sub) : s[i + j] = sub[j]

\* s.replace(old, new) for one-character old and new
replace(s, old, new) == [i \in 1..Len(s) |-> IF s[i] = old THEN new ELSE s[i]]

(* Messages of the exceptions the pipeline can meet *)

\* "'NoneType' object has no attribute 'lower'"
MsgNoneLower ==
    << "'", "N", "o", "n", "e", "T", "y", "p", "e", "'", " ", "o", "b", "j", "e", "c",
       "t", " ", "h", "a", "s", " ", "n", "o", " ", "a", "t", "t", "r", "i", "b", "u",
       "t", "e", " ", "'", "l", "o", "w", "e", "r", "'" >>

\* "a bytes-like object is required, not 'str'"
MsgBytesIn ==
    << "a", " ", "b", "y", "t", "e", "s", "-", "l", "i", "k", "e", " ", "o", "b", "j",
       "e", "c", "t", " ", "i", "s", " ", "r", "e", "q", "u", "i", "r", "e", "d", ",",
       " ", "n", "o", "t", " ", "'", "s", "t", "r", "'" >>

\* "object of type 'NoneType' has no len()"
MsgNoneLen ==
    << "o", "b", "j", "e", "c", "t", " ", "o", "f", " ", "t", "y", "p", "e", " ", "'",
       "N", "o", "n", "e", "T", "y", "p", "e", "'", " ", "h", "a", "s", " ", "n", "o",
       " ", "l", "e", "n", "(", ")" >>

\* "could not convert string to float"
MsgFloat ==
    << "c", "o", "u", "l", "d", " ", "n", "o", "t", " ", "c", "o", "n", "v", "e", "r",
       "t", " ", "s", "t", "r", "i", "n", "g", " ", "t", "o", " ", "f", "l", "o", "a", "t" >>

\* "argument is not iterable"
MsgNotIterable ==
    << "a", "r", "g", "u", "m", "e", "n", "t", " ", "i", "s", " ", "n", "o", "t", " ",
       "i", "t", "e", "r", "a", "b", "l", "e" >>

\* "list indices must be integers or slices, not str"
MsgListIndex ==
    << "l", "i", "s", "t", " ", "i", "n", "d", "i", "c", "e", "s", " ", "m", "u", "s",
       "t", " ", "b", "e", " ", "i", "n", "t", "e", "g", "e", "r", "s", " ", "o", "r",
       " ", "s", "l", "i", "c", "e", "s", ",", " ", "n", "o", "t", " ", "s", "t", "r" >>

\* "Expecting value"
MsgJSON ==
    << "E", "x", "p", "e", "c", "t", "i", "n", "g", " ", "v", "a", "l", "u", "e" >>

\* "'<' not supported between instances"
MsgCompare ==
    << "'", "<", "'", " ", "n", "o", "t", " ", "s", "u", "p", "p", "o", "r", "t", "e",
       "d", " ", "b", "e", "t", "w", "e", "e", "n", " ", "i", "n", "s", "t", "a", "n",
       "c", "e", "s" >>

Digits == << "0", "1", "2", "3", "4", "5", "6", "7", "8", "9" >>

IsDigit(c) == \E i \in 1..10 : Digits[i] = c

DigitValue(c) == (CHOOSE i \in 1..10 : Digits[i] = c) - 1

RECURSIVE DigitsValue(_)
DigitsValue(s) ==
    IF s = << >> THEN 0
    ELSE DigitsValue(SubSeq(s, 1, Len(s) - 1)) * 10 + DigitValue(s[Len(s)])

AllDigits(s) == \A i \in 1..Len(s) : IsDigit(s[i])

\* The fractional digits of a decimal literal, in hundredths.  The numbers of
\* the model are hundredths: a third fractional digit and beyond is dropped.
FractionHundredths(f) ==
    CASE Len(f) = 0 -> 0
      [] Len(f) = 1 -> DigitValue(f[1]) * 10
      [] OTHER -> DigitValue(f[1]) * 10 + DigitValue(f[2])

\* float(s) for a str s: surrounding whitespace is stripped, then an optional
\* sign and a decimal literal (digits, optionally a point and digits; at least
\* one digit) are read; anything else is a ValueError.
float_str(s) ==
    LET t == strip(s)
        signed == t # << >> /\ t[1] \in {"+", "-"}
        body == IF signed THEN Tail(t) ELSE t
        dots == {i \in 1..Len(body) : body[i] = "."}
        p == IF dots = {} THEN Len(body) + 1 ELSE CHOOSE i \in dots : TRUE
        whole == SubSeq(body, 1, p - 1)
        frac == SubSeq(body, p + 1, Len(body))
        wellformed ==
            /\ Cardinality(dots) <= 1
            /\ AllDigits(whole)
            /\ AllDigits(frac)
            /\ Len(whole) + Len(frac) >= 1
        magnitude == DigitsValue(whole) * 100 + FractionHundredths(frac)
    IN  IF wellformed
        THEN Return(Num(IF signed /\ t[1] = "-" THEN 0 - magnitude ELSE magnitude))
        ELSE Raise("ValueError", MsgFloat)

---------------------------------------------------------------------------
(* analyze_with_mock_llm: the keyword scorer *)

\* the keyword list
key_techs ==
    << <<"p", "y", "t", "h", "o", "n">>,
      <<"d", "j", "a", "n", "g", "o">>,
      <<"f", "l", "a", "s", "k">>,
      <<"f", "a", "s", "t", "a", "p", "i">>,
      <<"r", "e", "s", "t">>,
      <<"a", "p", "i">>,
      <<"s", "q", "l">>,
      <<"p", "o", "s", "t", "g", "r", "e", "s", "q", "l">>,
      <<"m", "y", "s", "q", "l">>,
      <<"m", "o", "n", "g", "o", "d", "b">>,
      <<"n", "o", "s", "q", "l">>,
      <<"r", "e", "d", "i", "s">>,
      <<"d", "o", "c", "k", "e", "r">>,
      <<"k", "u", "b", "e", "r", "n", "e", "t", "e", "s">>,
      <<"g", "i", "t">>,
      <<"c", "i", "/", "c", "d">>,
      <<"l", "i", "n", "u", "x">>,
      <<"a", "w", "s">>,
      <<"a", "z", "u", "r", "e">>,
      <<"m", "i", "c", "r", "o", "s", "e", "r", "v", "i", "c", "e", "s">>,
      <<"t", "d", "d">>,
      <<"u", "n", "i", "t", " ", "t", "e", "s", "t", "s">>,
      <<"p", "y", "t", "e", "s", "t">>,
      <<"a", "s", "y", "n", "c", "i", "o">> >>

\* The words the mock scorer looks for in a resume
Markers ==
    [
     \* 'senior', '5+ <let>', '5 <let>'
     Senior |->
         { <<"s", "e", "n", "i", "o", "r">>,
         <<"5", "+", " ", "cy:l", "cy:e", "cy:t">>,
         <<"5", " ", "cy:l", "cy:e", "cy:t">> },
     \* 'middle', '3+ <let>', '3 <goda>'
     Middle |->
         { <<"m", "i", "d", "d", "l", "e">>,
         <<"3", "+", " ", "cy:l", "cy:e", "cy:t">>,
         <<"3", " ", "cy:g", "cy:o", "cy:d", "cy:a">> },
     \* 'junior', '1+ <god>', '2 <goda>'
     Junior |->
         { <<"j", "u", "n", "i", "o", "r">>,
         <<"1", "+", " ", "cy:g", "cy:o", "cy:d">>,
         <<"2", " ", "cy:g", "cy:o", "cy:d", "cy:a">> },
     \* '<magistr>', '<vysshee>'
     HigherEducation |->
         { <<"cy:m", "cy:a", "cy:g", "cy:i", "cy:s", "cy:t", "cy:r">>,
         <<"cy:v", "cy:y", "cy:s", "cy:sh", "cy:e", "cy:e">> },
     \* '<bakalavr>', '<kolledzh>'
     Bachelor |->
         { <<"cy:b", "cy:a", "cy:k", "cy:a", "cy:l", "cy:a", "cy:v", "cy:r">>,
         <<"cy:k", "cy:o", "cy:l", "cy:l", "cy:e", "cy:d", "cy:zh">> }]

\* The sentences the mock scorer builds its justification from
JustificationText ==
    [
     \* "<k><a><n><d><i><d><a><t> <s><o><o><t><v><e><t><s><t><v><u><e><t> "
     Matches |->
         << "CY:k", "cy:a", "cy:n", "cy:d", "cy:i", "cy:d", "cy:a", "cy:t", " ", "cy:s",
         "cy:o", "cy:o", "cy:t", "cy:v", "cy:e", "cy:t", "cy:s", "cy:t", "cy:v", "cy:u",
         "cy:e", "cy:t", " " >>,
     \* " <i><z> "
     OutOf |->
         << " ", "cy:i", "cy:z", " " >>,
     \* " <k><l><yu><ch><e><v><y><h> <t><e><h><n><o><l><o><g><i><j>. "
     KeyTechs |->
         << " ", "cy:k", "cy:l", "cy:yu", "cy:ch", "cy:e", "cy:v", "cy:y", "cy:h", " ", "cy:t",
         "cy:e", "cy:h", "cy:n", "cy:o", "cy:l", "cy:o", "cy:g", "cy:i", "cy:j", ".", " " >>,
     \* "<i><m><e><e><t> <z><n><a><ch><i><t><e><l><soft><n><y><j> <o><p><y><t> <r><a><b><o><t><y> (<u><r><o><v><e><n><soft> Senior). "
     Senior |->
         << "CY:i", "cy:m", "cy:e", "cy:e", "cy:t", " ", "cy:z", "cy:n", "cy:a", "cy:ch",
         "cy:i", "cy:t", "cy:e", "cy:l", "cy:soft", "cy:n", "cy:y", "cy:j", " ", "cy:o",
         "cy:p", "cy:y", "cy:t", " ", "cy:r", "cy:a", "cy:b", "cy:o", "cy:t", "cy:y", " ",
         "(", "cy:u", "cy:r", "cy:o", "cy:v", "cy:e", "cy:n", "cy:soft", " ", "S", "e", "n",
         "i", "o", "r", ")", ".", " " >>,
     \* "<i><m><e><e><t> <s><r><e><d><n><i><j> <o><p><y><t> <r><a><b><o><t><y> (<u><r><o><v><e><n><soft> Middle). "
     Middle |->
         << "CY:i", "cy:m", "cy:e", "cy:e", "cy:t", " ", "cy:s", "cy:r", "cy:e", "cy:d",
         "cy:n", "cy:i", "cy:j", " ", "cy:o", "cy:p", "cy:y", "cy:t", " ", "cy:r", "cy:a",
         "cy:b", "cy:o", "cy:t", "cy:y", " ", "(", "cy:u", "cy:r", "cy:o", "cy:v", "cy:e",
         "cy:n", "cy:soft", " ", "M", "i", "d", "d", "l", "e", ")", ".", " " >>,
     \* "<i><m><e><e><t> <n><e><b><o><l><soft><sh><o><j> <o><p><y><t> <r><a><b><o><t><y> (<u><r><o><v><e><n><soft> Junior). "
     Junior |->
         << "CY:i", "cy:m", "cy:e", "cy:e", "cy:t", " ", "cy:n", "cy:e", "cy:b", "cy:o",
         "cy:l", "cy:soft", "cy:sh", "cy:o", "cy:j", " ", "cy:o", "cy:p", "cy:y", "cy:t",
         " ", "cy:r", "cy:a", "cy:b", "cy:o", "cy:t", "cy:y", " ", "(", "cy:u", "cy:r",
         "cy:o", "cy:v", "cy:e", "cy:n", "cy:soft", " ", "J", "u", "n", "i", "o", "r", ")",
         ".", " " >>,
     \* "<o><p><y><t> <r><a><b><o><t><y> <n><e> <u><k><a><z><a><n> <i><l><i> <m><i><n><i><m><a><l><e><n>. "
     NoExperience |->
         << "CY:o", "cy:p", "cy:y", "cy:t", " ", "cy:r", "cy:a", "cy:b", "cy:o", "cy:t",
         "cy:y", " ", "cy:n", "cy:e", " ", "cy:u", "cy:k", "cy:a", "cy:z", "cy:a", "cy:n",
         " ", "cy:i", "cy:l", "cy:i", " ", "cy:m", "cy:i", "cy:n", "cy:i", "cy:m", "cy:a",
         "cy:l", "cy:e", "cy:n", ".", " " >>,
     \* "<i><m><e><e><t> <v><y><s><sh><e><e> <o><b><r><a><z><o><v><a><n><i><e> <i><l><i> <s><t><e><p><e><n><soft> <m><a><g><i><s><t><r><a>. "
     Higher |->
         << "CY:i", "cy:m", "cy:e", "cy:e", "cy:t", " ", "cy:v", "cy:y", "cy:s", "cy:sh",
         "cy:e", "cy:e", " ", "cy:o", "cy:b", "cy:r", "cy:a", "cy:z", "cy:o", "cy:v",
         "cy:a", "cy:n", "cy:i", "cy:e", " ", "cy:i", "cy:l", "cy:i", " ", "cy:s", "cy:t",
         "cy:e", "cy:p", "cy:e", "cy:n", "cy:soft", " ", "cy:m", "cy:a", "cy:g", "cy:i",
         "cy:s", "cy:t", "cy:r", "cy:a", ".", " " >>,
     \* "<i><m><e><e><t> <s><t><e><p><e><n><soft> <b><a><k><a><l><a><v><r><a> <i><l><i> <o><b><r><a><z><o><v><a><n><i><e> <k><o><l><l><e><d><zh><a>. "
     Bachelor |->
         << "CY:i", "cy:m", "cy:e", "cy:e", "cy:t", " ", "cy:s", "cy:t", "cy:e", "cy:p",
         "cy:e", "cy:n", "cy:soft", " ", "cy:b", "cy:a", "cy:k", "cy:a", "cy:l", "cy:a",
         "cy:v", "cy:r", "cy:a", " ", "cy:i", "cy:l", "cy:i", " ", "cy:o", "cy:b", "cy:r",
         "cy:a", "cy:z", "cy:o", "cy:v", "cy:a", "cy:n", "cy:i", "cy:e", " ", "cy:k",
         "cy:o", "cy:l", "cy:l", "cy:e", "cy:d", "cy:zh", "cy:a", ".", " " >>,
     \* "<i><n><f><o><r><m><a><c><i><ya> <o><b> <o><b><r><a><z><o><v><a><n><i><i> <o><t><s><u><t><s><t><v><u><e><t>. "
     NoEducation |->
         << "CY:i", "cy:n", "cy:f", "cy:o", "cy:r", "cy:m", "cy:a", "cy:c", "cy:i", "cy:ya",
         " ", "cy:o", "cy:b", " ", "cy:o", "cy:b", "cy:r", "cy:a", "cy:z", "cy:o", "cy:v",
         "cy:a", "cy:n", "cy:i", "cy:i", " ", "cy:o", "cy:t", "cy:s", "cy:u", "cy:t",
         "cy:s", "cy:t", "cy:v", "cy:u", "cy:e", "cy:t", ".", " " >>]

\* str(n) for an integer n >= 0
RECURSIVE str_int(_)
str_int(n) ==
    IF n < 10 THEN << Digits[n + 1] >>
    ELSE str_int(n \div 10) \o << Digits[(n % 10) + 1] >>

\* n / d rounded to the nearest integer (n >= 0, d > 0)
RoundDiv(n, d) == (2 * n + d) \div (2 * d)

\* A count that takes the seniority markers for keywords as well
keyword_matches_CountsMarkers(resume_lower) ==
    Cardinality({i \in 1..Len(key_techs) : Contains(resume_lower, key_techs[i])})
        + Cardinality({m \in Markers.Senior : Contains(resume_lower, m)})

\* keyword_matches: the keywords that occur in the lower-cased resume
keyword_matches(resume_lower) ==
    Cardinality({i \in 1..Len(key_techs) : Contains(resume_lower, key_techs[i])})

ContainsAny(s, markers) == \E m \in markers : Contains(s, m)

\* The tiers tested from the lowest up
experience_level_JuniorFirst(resume_lower) ==
    IF ContainsAny(resume_lower, Markers.Junior) THEN 1
    ELSE IF ContainsAny(resume_lower, Markers.Middle) THEN 2
    ELSE IF ContainsAny(resume_lower, Markers.Senior) THEN 3
    ELSE 0

\* Lines 285-292: the if / elif chain tests senior, then middle, then junior
experience_level(resume_lower) ==
    IF ContainsAny(resume_lower, Markers.Senior) THEN 3
    ELSE IF ContainsAny(resume_lower, Markers.Middle) THEN 2
    ELSE IF ContainsAny(resume_lower, Markers.Junior) THEN 1
    ELSE 0

education_level(resume_lower) ==
    IF ContainsAny(resume_lower, Markers.HigherEducation) THEN 2
    ELSE IF ContainsAny(resume_lower, Markers.Bachelor) THEN 1
    ELSE 0

Min2(a, b) == IF a < b THEN a ELSE b

Max2(a, b) == IF a > b THEN a ELSE b

\* The keywords worth 10 points instead of 6
total_score_KeywordsWorthTen(matches, experience, education) ==
    LET max_keywords == Len(key_techs)
        hundredths == RoundDiv(matches * 1000, max_keywords)
                        + experience * 100 + education * 50
    IN  IF hundredths < 0 THEN 0 ELSE IF hundredths > 1000 THEN 1000 ELSE hundredths

\* round(min(max(keyword_score + experience_score + education_score, 0), 10), 2)
\* in hundredths: (matches / max_keywords) * 6 is matches * 600 / max_keywords,
\* experience is worth 100 a level and education 50 a level.
total_score(matches, experience, education) ==
    LET max_keywords == Len(key_techs)
        hundredths == RoundDiv(matches * 600, max_keywords)
                        + experience * 100 + education * 50
    IN  Min2(Max2(hundredths, 0), 1000)

mock_justification(matches, experience, education) ==
    JustificationText.Matches \o str_int(matches) \o JustificationText.OutOf
        \o str_int(Len(key_techs)) \o JustificationText.KeyTechs
        \o (CASE experience = 3 -> JustificationText.Senior
              [] experience = 2 -> JustificationText.Middle
              [] experience = 1 -> JustificationText.Junior
              [] OTHER -> JustificationText.NoExperience)
        \o (CASE education = 2 -> JustificationText.Higher
              [] education = 1 -> JustificationText.Bachelor
              [] OTHER -> JustificationText.NoEducation)

KeyScore == << "s", "c", "o", "r", "e" >>

KeyJustification ==
    << "j", "u", "s", "t", "i", "f", "i", "c", "a", "t", "i", "o", "n" >>

KeyFileName == << "f", "i", "l", "e", "_", "n", "a", "m", "e" >>

\* {'score': score, 'justification': justification}
AnalysisResult(score, justification) ==
    Dict((KeyScore :> score) @@ (KeyJustification :> justification))

\* A scorer that refuses an empty resume
analyze_with_mock_llm_RejectsEmpty(resume, vacancy) ==
    IF resume.t \notin {"str", "bytes"} THEN Raise("AttributeError", MsgNoneLower)
    ELSE IF vacancy.t \notin {"str", "bytes"} THEN Raise("AttributeError", MsgNoneLower)
    ELSE IF resume.t = "bytes" /\ Len(key_techs) > 0 THEN Raise("TypeError", MsgBytesIn)
    ELSE IF resume.v = << >> THEN Raise("ValueError", MsgFloat)
    ELSE
        LET resume_lower == lower(resume.v)
            matches == keyword_matches(resume_lower)
            experience == experience_level(resume_lower)
            education == education_level(resume_lower)
        IN  Return(AnalysisResult(
                Num(total_score(matches, experience, education)),
                Str(mock_justification(matches, experience, education))))

\* A scorer that counts a keyword only if the vacancy names it too
analyze_with_mock_llm_VacancyKeywords(resume, vacancy) ==
    IF resume.t \notin {"str", "bytes"} THEN Raise("AttributeError", MsgNoneLower)
    ELSE IF vacancy.t \notin {"str", "bytes"} THEN Raise("AttributeError", MsgNoneLower)
    ELSE IF resume.t = "bytes" /\ Len(key_techs) > 0 THEN Raise("TypeError", MsgBytesIn)
    ELSE
        LET resume_lower == lower(resume.v)
            vacancy_lower == lower(vacancy.v)
            matches == Cardinality({i \in 1..Len(key_techs) :
                                      /\ Contains(resume_lower, key_techs[i])
                                      /\ Contains(vacancy_lower, key_techs[i])})
            experience == experience_level(resume_lower)
            education == education_level(resume_lower)
        IN  Return(AnalysisResult(
                Num(total_score(matches, experience, education)),
                Str(mock_justification(matches, experience, education))))

\* .lower() exists on str and bytes; `tech in resume_lower` with a str tech
\* needs a str on the right.
analyze_with_mock_llm(resume, vacancy) ==
    IF resume.t \notin {"str", "bytes"} THEN Raise("AttributeError", MsgNoneLower)
    ELSE IF vacancy.t \notin {"str", "bytes"} THEN Raise("AttributeError", MsgNoneLower)
    ELSE IF resume.t = "bytes" /\ Len(key_techs) > 0 THEN Raise("TypeError", MsgBytesIn)
    ELSE
        LET resume_lower == lower(resume.v)
            matches == keyword_matches(resume_lower)
            experience == experience_level(resume_lower)
            education == education_level(resume_lower)
        IN  Return(AnalysisResult(
                Num(total_score(matches, experience, education)),
                Str(mock_justification(matches, experience, education))))

---------------------------------------------------------------------------
(* The text of a remote reply.  A reply text is a sequence of segments:     *)
(* prose (no brace in it), whitespace, a stray brace, or the serialization  *)
(* of one JSON value; the serialization of a dict starts with "{" and ends  *)
(* with "}".                                                                *)

Prose == [k |-> "prose"]

Space == [k |-> "ws"]

LBrace == [k |-> "lbrace"]

RBrace == [k |-> "rbrace"]

Json(v) == [k |-> "json", val |-> v]

RECURSIVE text_lstrip(_)
text_lstrip(text) ==
    IF text # << >> /\ Head(text).k = "ws" THEN text_lstrip(Tail(text)) ELSE text

RECURSIVE text_rstrip(_)
text_rstrip(text) ==
    IF text # << >> /\ text[Len(text)].k = "ws"
    THEN text_rstrip(SubSeq(text, 1, Len(text) - 1))
    ELSE text

\* text.strip()
text_strip(text) == text_rstrip(text_lstrip(text))

OpensBrace(seg) == seg.k = "lbrace" \/ (seg.k = "json" /\ seg.val.t = "dict")

ClosesBrace(seg) == seg.k = "rbrace" \/ (seg.k = "json" /\ seg.val.t = "dict")

SetMin(S) == CHOOSE x \in S : \A y \in S : x <= y

SetMax(S) == CHOOSE x \in S : \A y \in S : x >= y

\* re.search(r'\{.*\}', response, re.DOTALL): the leftmost "{" that has a "}"
\* after it, up to the last "}" of the text (".*" is greedy and DOTALL lets it
\* cross line ends).  Return(the matched text), or Absent for no match.
re_search_braces(response) ==
    LET opens == {i \in 1..Len(response) : OpensBrace(response[i])}
        closes == {i \in 1..Len(response) : ClosesBrace(response[i])}
    IN  IF opens # {} /\ closes # {} /\ SetMin(opens) <= SetMax(closes)
        THEN Return(SubSeq(response, SetMin(opens), SetMax(closes)))
        ELSE Absent

\* json.loads(s): one JSON value, whitespace allowed around it
json_loads(s) ==
    LET body == text_strip(s)
    IN  IF Len(body) = 1 /\ body[1].k = "json"
        THEN Return(body[1].val)
        ELSE Raise("JSONDecodeError", MsgJSON)

\* key in container
py_in(key, container) ==
    CASE container.t = "dict" -> Return(key \in DOMAIN container.d)
      [] container.t = "list" -> Return(\E i \in 1..Len(container.items) :
                                            container.items[i] = Str(key))
      [] container.t = "str" -> Return(Contains(container.v, key))
      [] OTHER -> Raise("TypeError", MsgNotIterable)

\* container[key] for a str key
py_getitem(container, key) ==
    IF container.t = "dict"
    THEN IF key \in DOMAIN container.d
         THEN Return(container.d[key])
         ELSE Raise("KeyError", key)
    ELSE Raise("TypeError", MsgListIndex)

\* The score left as it was parsed
coerce_score_Unconverted(score) == Return(score)

\* Lines 231-238: a str score is replaced by float(score)
coerce_score(score) == IF score.t = "str" THEN float_str(score.v) ELSE Return(score)

\* LLMInterface.analyze_resume once generate_text has returned `response`.
\* Every `return analyze_with_mock_llm(...)` sits inside the outer try, whose
\* handler calls analyze_with_mock_llm again: whichever line falls back, the
\* outcome is that of analyze_with_mock_llm.  `line` is the returning line.
LLMInterface_analyze_resume(resume, vacancy, response) ==
    LET json_match == re_search_braces(response)
        json_str == IF json_match.st = "return" THEN json_match.val
                    ELSE text_strip(response)
        parsed == json_loads(json_str)
        mock == analyze_with_mock_llm(resume, vacancy)
        Fallback(line) == [out |-> mock, line |-> IF mock.st = "raise" THEN 248 ELSE line]
    IN  IF parsed.st = "raise" THEN Fallback(244)
        ELSE
          LET result == parsed.val
              has_score == py_in(KeyScore, result)
              has_justification == py_in(KeyJustification, result)
          IN  IF has_score.st = "raise" THEN Fallback(248)
              ELSE IF ~has_score.val THEN Fallback(229)
              ELSE IF has_justification.st = "raise" THEN Fallback(248)
              ELSE IF ~has_justification.val THEN Fallback(229)
              ELSE
                LET score == py_getitem(result, KeyScore)
                IN  IF score.st = "raise" THEN Fallback(248)
                    ELSE
                      LET number == coerce_score(score.val)
                      IN  IF number.st = "raise" THEN Fallback(238)
                          ELSE [out |-> Return(Dict([result.d EXCEPT ![KeyScore] = number.val])),
                                line |-> 240]

---------------------------------------------------------------------------
(* ResumeAnalyzer *)

\* "<n><e> <u><d><a><l><o><s><soft> <p><r><o><a><n><a><l><i><z><i><r><o><v><a><t><soft> <r><e><z><yu><m><e>: "
FailedToAnalyze ==
    << "CY:n", "cy:e", " ", "cy:u", "cy:d", "cy:a", "cy:l", "cy:o", "cy:s", "cy:soft",
       " ", "cy:p", "cy:r", "cy:o", "cy:a", "cy:n", "cy:a", "cy:l", "cy:i", "cy:z",
       "cy:i", "cy:r", "cy:o", "cy:v", "cy:a", "cy:t", "cy:soft", " ", "cy:r", "cy:e",
       "cy:z", "cy:yu", "cy:m", "cy:e", ":", " " >>

\* "Python"
Placeholder ==
    << "P", "y", "t", "h", "o", "n" >>

\* len(x)
py_len(x) ==
    CASE x.t \in {"str", "bytes"} -> Return(Len(x.v))
      [] x.t = "list" -> Return(Len(x.items))
      [] OTHER -> Raise("TypeError", MsgNoneLen)

\* Line 50, before the try block:
\*   resume_text[:100].replace('\n', ' ').strip() + '...'
\*       if len(resume_text) > 100 else resume_text
\* bytes.replace and list.replace do not take these arguments.
resume_preview(resume) ==
    LET n == py_len(resume)
    IN  IF n.st = "raise" THEN n
        ELSE IF n.val > 100
        THEN IF resume.t = "str"
             THEN Return(Str(strip(replace(SubSeq(resume.v, 1, 100), "\n", " "))
                             \o << ".", ".", "." >>))
             ELSE Raise("TypeError", MsgBytesIn)
        ELSE Return(resume)

\* A fallback without its try block: what the scorer raises gets out
fallback_analysis_Unguarded(resume, vacancy) == analyze_with_mock_llm(resume, vacancy)

\* ResumeAnalyzer._fallback_analysis: the scorer's result, or the zero result
\* carrying the error message when the scorer raises
fallback_analysis(resume, vacancy) ==
    LET mock == analyze_with_mock_llm(resume, vacancy)
    IN  IF mock.st = "return" THEN mock
        ELSE Return(AnalysisResult(Num(0), Str(FailedToAnalyze \o mock.msg)))

\* The gate without its test for an empty justification
needs_fallback_NoEmptyTest(result) ==
    \/ ~HasKey(result, KeyScore)
    \/ ~HasKey(result, KeyJustification)
    \/ Get(result, KeyJustification) = Str(Placeholder)

\* The gate without its test for the placeholder
needs_fallback_NoPlaceholderTest(result) ==
    \/ ~HasKey(result, KeyScore)
    \/ ~HasKey(result, KeyJustification)
    \/ ~Truthy(Get(result, KeyJustification))

\* Lines 60-63: the result of the remote attempt is replaced by the fallback
needs_fallback(result) ==
    \/ ~HasKey(result, KeyScore)
    \/ ~HasKey(result, KeyJustification)
    \/ ~Truthy(Get(result, KeyJustification))
    \/ Get(result, KeyJustification) = Str(Placeholder)

\* The fixed pause of analyze_resume, in seconds
AnalysisPause == 3

\* Lines 55-82 of ResumeAnalyzer.analyze_resume, given what
\* LLMInterface.analyze_resume did: the outcome, the return statement taken
\* and the pauses made.
analyze_resume_try(resume, vacancy, llm) ==
    IF llm.out.st = "raise"
    THEN [out |-> fallback_analysis(resume, vacancy), branch |-> "except",
          sleeps |-> << >>]
    ELSE IF needs_fallback(llm.out.val)
    THEN [out |-> fallback_analysis(resume, vacancy), branch |-> "gate",
          sleeps |-> << AnalysisPause >>]
    ELSE [out |-> llm.out,
          branch |-> IF llm.line = 240 THEN "primary" ELSE "llm_fallback",
          sleeps |-> << AnalysisPause >>]

\* ResumeAnalyzer.analyze_resume as one call, given the text generate_text returns
analyze_resume(resume, vacancy, response) ==
    LET preview == resume_preview(resume)
    IN  IF preview.st = "raise"
        THEN [out |-> preview, branch |-> "raised", sleeps |-> << >>]
        ELSE analyze_resume_try(resume, vacancy,
                 LLMInterface_analyze_resume(resume, vacancy, response))

---------------------------------------------------------------------------
(* Ranking *)

Reverse(s) == [i \in 1..Len(s) |-> s[Len(s) + 1 - i]]

score_of(x) == x.d[KeyScore]

\* a < b works between two numbers and between two lists
Comparable(a, b) == (a.t = "num" /\ b.t = "num") \/ (a.t = "list" /\ b.t = "list")

\* a < b for comparable a and b.  Lists compare lexicographically; the lists of
\* the model hold no items, so the shorter one is the smaller one.
key_less(a, b) == IF a.t = "num" THEN a.v < b.v ELSE Len(a.items) < Len(b.items)

\* Insertion into an ascending run, after the entries that are not greater
insert_stable(run, x) ==
    LET greater == {i \in 1..Len(run) : key_less(score_of(x), score_of(run[i]))}
        p == IF greater = {} THEN Len(run) + 1 ELSE SetMin(greater)
    IN  SubSeq(run, 1, p - 1) \o << x >> \o SubSeq(run, p, Len(run))

\* list.sort: stable, ascending, by `<` on the keys alone
RECURSIVE stable_sort(_)
stable_sort(s) ==
    IF s = << >> THEN << >>
    ELSE insert_stable(stable_sort(SubSeq(s, 1, Len(s) - 1)), s[Len(s)])

\* s[:n]
slice_to(s, n) ==
    IF n >= 0 THEN SubSeq(s, 1, Min2(n, Len(s)))
    ELSE SubSeq(s, 1, Max2(Len(s) + n, 0))

\* An ascending stable sort reversed afterwards: entries of equal score come
\* out in reverse input order
sorted_by_score_desc_Reversed(s) ==
    IF Len(s) >= 2 /\ \E i, j \in 1..Len(s) :
                          i # j /\ ~Comparable(score_of(s[i]), score_of(s[j]))
    THEN Raise("TypeError", MsgCompare)
    ELSE Return(Reverse(stable_sort(s)))

\* sorted(results, key=lambda x: x['score'], reverse=True): the list is
\* reversed, sorted ascending and stable, and reversed again, which keeps
\* entries of equal score in their input order.  A sort of two or more entries
\* compares every entry with another one, and a comparison the types do not
\* support raises TypeError.
sorted_by_score_desc(s) ==
    IF Len(s) >= 2 /\ \E i, j \in 1..Len(s) :
                          i # j /\ ~Comparable(score_of(s[i]), score_of(s[j]))
    THEN Raise("TypeError", MsgCompare)
    ELSE Return(Reverse(stable_sort(Reverse(s))))

\* The best entry taken from a sort that turns entries of equal score around
select_best_candidate_FromReversed(rs) ==
    IF rs = << >> THEN Return(PyNone)
    ELSE LET sorted_results == sorted_by_score_desc_Reversed(rs)
         IN  IF sorted_results.st = "raise" THEN sorted_results
             ELSE Return(sorted_results.val[1])

\* ResumeAnalyzer.select_best_candidate: None for an empty list, else the
\* first entry of sorted(results, key=score, reverse=True)
select_best_candidate(rs) ==
    IF rs = << >> THEN Return(PyNone)
    ELSE LET sorted_results == sorted_by_score_desc(rs)
         IN  IF sorted_results.st = "raise" THEN sorted_results
             ELSE Return(sorted_results.val[1])

\* The slice taken before the sort
select_top_candidates_SliceFirst(rs, n) ==
    IF rs = << >> THEN Return(<< >>)
    ELSE sorted_by_score_desc(slice_to(rs, Min2(n, Len(rs))))

\* ResumeAnalyzer.select_top_candidates
select_top_candidates(rs, n) ==
    IF rs = << >> THEN Return(<< >>)
    ELSE LET sorted_results == sorted_by_score_desc(rs)
         IN  IF sorted_results.st = "raise" THEN sorted_results
             ELSE Return(slice_to(sorted_results.val,
                                  Min2(n, Len(sorted_results.val))))

---------------------------------------------------------------------------
(* Sample inputs *)

\* the empty text
ResumeEmpty ==
    << >>

\* "Senior Python, Docker, Kubernetes. <m><a><g><i><s><t><r>"
ResumeSenior ==
    << "S", "e", "n", "i", "o", "r", " ", "P", "y", "t", "h", "o", "n", ",", " ", "D",
       "o", "c", "k", "e", "r", ",", " ", "K", "u", "b", "e", "r", "n", "e", "t", "e",
       "s", ".", " ", "CY:m", "cy:a", "cy:g", "cy:i", "cy:s", "cy:t", "cy:r" >>

\* "junior\ngit"
ResumeJunior ==
    << "j", "u", "n", "i", "o", "r", "\n", "g", "i", "t" >>

\* "Middle PostgreSQL 3 <g><o><d><a> <b><a><k><a><l><a><v><r>"
ResumeMiddle ==
    << "M", "i", "d", "d", "l", "e", " ", "P", "o", "s", "t", "g", "r", "e", "S", "Q",
       "L", " ", "3", " ", "cy:g", "cy:o", "cy:d", "cy:a", " ", "cy:b", "cy:a", "cy:k",
       "cy:a", "cy:l", "cy:a", "cy:v", "cy:r" >>

\* "junior, then senior"
ResumeMixed ==
    << "j", "u", "n", "i", "o", "r", ",", " ", "t", "h", "e", "n", " ", "s", "e", "n",
       "i", "o", "r" >>

\* "Senior: Python Django Flask FastAPI REST SQL PostgreSQL MySQL MongoDB NoSQL Redis Docker Kubernetes Git CI/CD Linux AWS Azure microservices TDD unit tests pytest asyncio. <v><y><s><sh><e><e>"
ResumeLong ==
    << "S", "e", "n", "i", "o", "r", ":", " ", "P", "y", "t", "h", "o", "n", " ", "D",
       "j", "a", "n", "g", "o", " ", "F", "l", "a", "s", "k", " ", "F", "a", "s", "t",
       "A", "P", "I", " ", "R", "E", "S", "T", " ", "S", "Q", "L", " ", "P", "o", "s",
       "t", "g", "r", "e", "S", "Q", "L", " ", "M", "y", "S", "Q", "L", " ", "M", "o",
       "n", "g", "o", "D", "B", " ", "N", "o", "S", "Q", "L", " ", "R", "e", "d", "i",
       "s", " ", "D", "o", "c", "k", "e", "r", " ", "K", "u", "b", "e", "r", "n", "e",
       "t", "e", "s", " ", "G", "i", "t", " ", "C", "I", "/", "C", "D", " ", "L", "i",
       "n", "u", "x", " ", "A", "W", "S", " ", "A", "z", "u", "r", "e", " ", "m", "i",
       "c", "r", "o", "s", "e", "r", "v", "i", "c", "e", "s", " ", "T", "D", "D", " ",
       "u", "n", "i", "t", " ", "t", "e", "s", "t", "s", " ", "p", "y", "t", "e", "s",
       "t", " ", "a", "s", "y", "n", "c", "i", "o", ".", " ", "CY:v", "cy:y", "cy:s",
       "cy:sh", "cy:e", "cy:e" >>

\* "Sales manager"
ResumePlain ==
    << "S", "a", "l", "e", "s", " ", "m", "a", "n", "a", "g", "e", "r" >>

\* 101 characters
TextOver100 ==
    << "x", "x", "x", "x", "x", "x", "x", "x", "x", "x", "x", "x", "x", "x", "x", "x",
       "x", "x", "x", "x", "x", "x", "x", "x", "x", "x", "x", "x", "x", "x", "x", "x",
       "x", "x", "x", "x", "x", "x", "x", "x", "x", "x", "x", "x", "x", "x", "x", "x",
       "x", "x", "x", "x", "x", "x", "x", "x", "x", "x", "x", "x", "x", "x", "x", "x",
       "x", "x", "x", "x", "x", "x", "x", "x", "x", "x", "x", "x", "x", "x", "x", "x",
       "x", "x", "x", "x", "x", "x", "x", "x", "x", "x", "x", "x", "x", "x", "x", "x",
       "x", "x", "x", "x", "x" >>

\* "Python developer"
VacancyPython ==
    << "P", "y", "t", "h", "o", "n", " ", "d", "e", "v", "e", "l", "o", "p", "e", "r" >>

\* "Senior Java"
VacancyJava ==
    << "S", "e", "n", "i", "o", "r", " ", "J", "a", "v", "a" >>

\* "7.5"
ScoreText75 ==
    << "7", ".", "5" >>

\* " 3 \n"
ScoreTextPadded ==
    << " ", "3", " ", "\n" >>

\* "high"
ScoreTextWord ==
    << "h", "i", "g", "h" >>

\* "15"
ScoreText15 ==
    << "1", "5" >>

\* "ok"
JustificationOk ==
    << "o", "k" >>

\* " "
JustificationBlank ==
    << " " >>

TextResumes ==
    { Str(ResumeEmpty), Str(ResumeSenior), Str(ResumeJunior), Str(ResumeMiddle),
      Str(ResumeMixed), Str(ResumeLong), Str(ResumePlain) }

\* Arguments of an unexpected type: None, and bytes of at most and of more
\* than 100 characters
OtherResumes == { PyNone, Bytes(ResumePlain), Bytes(TextOver100) }

TextVacancies == { Str(VacancyPython), Str(VacancyJava) }

OtherVacancies == { PyNone }

\* {"score": score, "justification": justification}
Scored(score, justification) == Json(AnalysisResult(score, justification))

ScoreOnly(score) == Json(Dict(KeyScore :> score))

JustificationOnly(justification) == Json(Dict(KeyJustification :> justification))

EmptyObject == Json(Dict(<< >>))

Ok == Str(JustificationOk)

\* Texts the remote endpoint may answer with
RemoteTexts ==
    { << Scored(Num(900), Ok) >>,
      << Scored(Num(300), Ok) >>,
      << Scored(PyInt(9), Ok) >>,
      << Scored(Num(1500), Ok) >>,
      << Scored(Num(0 - 100), Ok) >>,
      << Scored(Str(ScoreText75), Ok) >>,
      << Scored(Str(ScoreTextPadded), Str(JustificationBlank)) >>,
      << Scored(Str(ScoreText15), Ok) >>,
      << Scored(Str(ScoreTextWord), Ok) >>,
      << Scored(PyNone, Ok) >>,
      << Scored(List(<< >>), Ok) >>,
      << Scored(Dict(<< >>), Ok) >>,
      << Scored(Num(800), Str(Placeholder)) >>,
      << Scored(Num(800), Str(<< >>)) >>,
      << Scored(Num(800), PyNone) >>,
      << JustificationOnly(Str(Placeholder)) >>,
      << JustificationOnly(Ok) >>,
      << ScoreOnly(Num(800)) >>,
      << EmptyObject >>,
      << Prose, Space, Scored(Num(900), Ok), Space, Prose >>,
      << Space, Scored(Num(300), Ok), Space >>,
      << Scored(Num(900), Ok), Prose, RBrace >>,
      << LBrace, Prose >>,
      << Prose >>,
      << Json(Num(500)) >>,
      << Json(PyNone) >>,
      << Json(List(<< Str(KeyScore), Str(KeyJustification) >>)) >>,
      << Json(List(<< >>)) >> }

\* What one chat.completions.create call can do: raise, answer without
\* choices, answer with content None, answer with a text
RemoteReplies ==
    { [kind |-> "exception"], [kind |-> "no_choices"], [kind |-> "content_none"] }
        \cup { [kind |-> "text", text |-> t] : t \in RemoteTexts \cup { << >>, << Space >> } }

\* Lines 83-86: the reply carries a text that is not empty after strip()
IsUsable(reply) == reply.kind = "text" /\ reply.text # << >> /\ text_strip(reply.text) # << >>

\* random.uniform(0, 1) in ms.  The jitter is below one second, the largest
\* being 1 - 2^-53; wait_time is the double nearest to the sum, and for the
\* largest jitters that double is (2 ** attempt) + 1 (1 + (1 - 2^-53) is 2.0):
\* 1000 stands for these.
Jitters == { 0, 999, 1000 }

\* Every value generate_text can return
GenerateTextReturns ==
    { << >> } \cup { text_strip(r.text) : r \in { q \in RemoteReplies : IsUsable(q) } }

\* Inputs of the batch run
BatchResumes == { Str(ResumeSenior), Str(ResumeMiddle), Str(ResumeMixed) }

BatchResponses ==
    { << >>,
      << Scored(Num(900), Ok) >>,
      << Scored(Str(ScoreText75), Ok) >>,
      << Scored(PyNone, Ok) >>,
      << Scored(List(<< >>), Ok) >>,
      << Scored(Dict(<< >>), Ok) >> }

\* Inputs of select_top_candidates
RankScores == { 100, 300, 900 }

MaxFiles == 2

MaxResults == 4

MaxTopN == 5

MaxRetriesArg == 4

MaxCount == 3

MaxTierCount == 10

MaxNumResumes == 2

MaxDataCalls == 2

MaxLogLines == 3

MaxRunResumes == 1

\* What the generation of the vacancy may do: a text or "" is written, or the
\* write fails
VacancyGens ==
    { [text |-> Str(VacancyPython), write_ok |-> TRUE],
      [text |-> Str(<< >>), write_ok |-> TRUE],
      [text |-> Str(VacancyPython), write_ok |-> FALSE] }

\* What the generation of one resume may do: a text or "" is written, or the
\* write fails
ResumeGens ==
    { [text |-> Str(ResumeMiddle), write_ok |-> TRUE],
      [text |-> Str(<< >>), write_ok |-> TRUE],
      [text |-> Str(ResumeMiddle), write_ok |-> FALSE] }

\* Texts generate_resume returns: "" after exhausted attempts, or a text
GeneratedTexts == { << >>, << Prose >> }

\* max_retries=3, the default of generate_text
DefaultMaxRetries == 3

FileNamePrefix == << "r", "e", "s", "u", "m", "e", "_" >>

FileNameSuffix == << ".", "t", "x", "t" >>

\* f"{i:03d}"
zfill3(i) ==
    LET s == str_int(i)
    IN  IF Len(s) >= 3 THEN s ELSE [k \in 1..(3 - Len(s)) |-> "0"] \o s

\* f"resume_{i:03d}.txt"
resume_file_name(i) == FileNamePrefix \o zfill3(i) \o FileNameSuffix

\* result['file_name'] = resume_file
with_file_name(result, name) == Dict((KeyFileName :> Str(name)) @@ result.d)

SeqsUpTo(S, n) == UNION { [1..k -> S] : k \in 0..n }

---------------------------------------------------------------------------
(* State machine *)

genVars == << max_retries, attempt, calls, waits, last_reply, gen_result >>

callVars == << resume_text, vacancy_text, llm_outcome, outcome, branch, sleeps >>

batchVars == << resume_files, analyzed >>

rankVars == << results, top_n, ranked >>

dataVars == << count, quality_levels, generated >>

reportVars == << json_data, markdown_content, saved >>

appVars == << disk, num_resumes, data_calls, app_outcome >>

logVars == << log, log_data >>

Init ==
    /\ pc = "idle"
    /\ op = "none"
    /\ resume_text = Absent
    /\ vacancy_text = Absent
    /\ max_retries = 0
    /\ attempt = 0
    /\ calls = 0
    /\ waits = << >>
    /\ last_reply = Absent
    /\ gen_result = Absent
    /\ llm_outcome = Absent
    /\ outcome = Absent
    /\ branch = "none"
    /\ sleeps = << >>
    /\ resume_files = << >>
    /\ analyzed = << >>
    /\ results = << >>
    /\ top_n = 0
    /\ ranked = Absent
    /\ count = 0
    /\ quality_levels = << >>
    /\ generated = << >>
    /\ json_data = Absent
    /\ markdown_content = << >>
    /\ saved = Absent
    /\ disk = [vacancy |-> Absent, resumes |-> Absent, markdown |-> Absent,
               json |-> Absent]
    /\ num_resumes = 0
    /\ data_calls = << >>
    /\ app_outcome = Absent
    /\ log = << >>
    /\ log_data = Absent

\* A caller invokes generate_text(prompt, max_retries)
generate_text_Call(n) ==
    /\ pc = "idle"
    /\ pc' = "generate"
    /\ op' = "generate_text"
    /\ max_retries' = n
    /\ UNCHANGED << attempt, calls, waits, last_reply, gen_result >>
    /\ UNCHANGED << callVars, batchVars, rankVars, dataVars, reportVars, appVars, logVars >>

\* A caller invokes ResumeAnalyzer.analyze_resume: lines 47-53 run, then line
\* 57 enters LLMInterface.analyze_resume, which builds the prompt and calls
\* generate_text with the default max_retries
analyze_resume_Call(resume, vacancy) ==
    /\ pc = "idle"
    /\ op' = "analyze_resume"
    /\ resume_text' = resume
    /\ vacancy_text' = vacancy
    /\ IF resume_preview(resume).st = "raise"
       THEN /\ pc' = "done"
            /\ outcome' = resume_preview(resume)
            /\ branch' = "raised"
            /\ UNCHANGED max_retries
       ELSE /\ pc' = "generate"
            /\ max_retries' = DefaultMaxRetries
            /\ UNCHANGED << outcome, branch >>
    /\ UNCHANGED << attempt, calls, waits, last_reply, gen_result, llm_outcome,
                    sleeps >>
    /\ UNCHANGED << batchVars, rankVars, dataVars, reportVars, appVars, logVars >>

---------------------------------------------------------------------------
(* DataGenerator.generate_resumes *)

\* int(count * share) for a share given in tenths: int() cuts towards zero
int_share(n, tenths) ==
    IF n >= 0 THEN (n * tenths) \div 10 ELSE 0 - (((0 - n) * tenths) \div 10)

\* A distribution whose low tier is a share of its own
quality_distribution_LowByShare(n) ==
    [high |-> int_share(n, 2), medium |-> int_share(n, 5), low |-> int_share(n, 3)]

\* Lines 98-102
quality_distribution(n) ==
    [high |-> int_share(n, 2),
     medium |-> int_share(n, 5),
     low |-> n - int_share(n, 2) - int_share(n, 5)]

\* [level] * amount
repeat(level, amount) == [i \in 1..amount |-> level]

\* Lines 107-109: the levels in the order of the dict, before the shuffle
quality_levels_list(n) ==
    LET d == quality_distribution(n)
    IN  repeat("high", d.high) \o repeat("medium", d.medium) \o repeat("low", d.low)

Occurrences(s, x) == Cardinality({i \in 1..Len(s) : s[i] = x})

\* random.shuffle(quality_levels): every rearrangement of the list
shuffles(s) ==
    { t \in [1..Len(s) -> {"high", "medium", "low"}] :
        \A level \in {"high", "medium", "low"} :
            Occurrences(t, level) = Occurrences(s, level) }

\* "list index out of range"
MsgIndexRange ==
    << "l", "i", "s", "t", " ", "i", "n", "d", "e", "x", " ", "o", "u", "t",
       " ", "o", "f", " ", "r", "a", "n", "g", "e" >>

\* delay = 3
GenerationDelay == 3

\* start_index=1, the default of generate_resumes
DefaultStartIndex == 1

\* Lines 89-116 of generate_resumes: the levels are distributed and shuffled
generate_resumes_Call(n, shuffled) ==
    /\ pc = "idle"
    /\ shuffled \in shuffles(quality_levels_list(n))
    /\ op' = "generate_resumes"
    /\ count' = n
    /\ quality_levels' = shuffled
    /\ pc' = "resumes"
    /\ UNCHANGED << generated, resume_files, analyzed >>
    /\ UNCHANGED << callVars, genVars, rankVars, reportVars, appVars, logVars >>

\* Lines 118-156: one iteration of the loop.  `text` is what generate_resume
\* (generate_text) returns, "" when its attempts are exhausted; write_ok tells
\* whether open() and write() of lines 140-141 succeed or raise.  Line 119 is
\* outside the try block: an index past the end of quality_levels raises.
generate_resumes_Iterate(text, write_ok) ==
    /\ pc = "resumes"
    /\ Len(generated) < count
    /\ LET i == Len(generated)
       IN  IF i + 1 > Len(quality_levels)
           THEN /\ pc' = "done"
                /\ saved' = Raise("IndexError", MsgIndexRange)
                /\ UNCHANGED << generated, resume_files, sleeps >>
           ELSE /\ generated' = Append(generated,
                       [quality_level |-> quality_levels[i + 1],
                        file_name |-> resume_file_name(DefaultStartIndex + i),
                        text |-> text,
                        written |-> write_ok])
                /\ IF write_ok
                   THEN /\ resume_files' = Append(resume_files,
                                                 resume_file_name(DefaultStartIndex + i))
                        /\ sleeps' = Append(sleeps, GenerationDelay)
                   ELSE UNCHANGED << resume_files, sleeps >>
                /\ UNCHANGED << pc, saved >>
    /\ UNCHANGED << op, resume_text, vacancy_text, llm_outcome, outcome, branch,
                    analyzed, count, quality_levels, json_data, markdown_content >>
    /\ UNCHANGED << genVars, rankVars, appVars, logVars >>

\* Lines 158-174: the statistics are saved and the list of created files returned
generate_resumes_Return ==
    /\ pc = "resumes"
    /\ Len(generated) = count
    /\ pc' = "done"
    /\ saved' = Return(resume_files)
    /\ UNCHANGED << op, json_data, markdown_content >>
    /\ UNCHANGED << callVars, genVars, batchVars, rankVars, dataVars, appVars,
                    logVars >>

---------------------------------------------------------------------------
(* ResumeAnalyzerApp.save_results_to_json, save_results_to_markdown *)

\* The fixed texts of the Markdown report
MdText ==
    [
     \* "# <r><e><z><u><l><soft><t><a><t><y> <a><n><a><l><i><z><a> <r><e><z><yu><m><e>\n\n"
     Title |->
         << "#", " ", "CY:r", "cy:e", "cy:z", "cy:u", "cy:l", "cy:soft", "cy:t", "cy:a",
         "cy:t", "cy:y", " ", "cy:a", "cy:n", "cy:a", "cy:l", "cy:i", "cy:z", "cy:a", " ",
         "cy:r", "cy:e", "cy:z", "cy:yu", "cy:m", "cy:e", "\n", "\n" >>,
     \* "## <l><u><ch><sh><i><j> <k><a><n><d><i><d><a><t>:\n"
     BestHeading |->
         << "#", "#", " ", "CY:l", "cy:u", "cy:ch", "cy:sh", "cy:i", "cy:j", " ", "cy:k",
         "cy:a", "cy:n", "cy:d", "cy:i", "cy:d", "cy:a", "cy:t", ":", "\n" >>,
     \* "**<f><a><j><l>**: "
     File |->
         << "*", "*", "CY:f", "cy:a", "cy:j", "cy:l", "*", "*", ":", " " >>,
     \* "  \n"
     LineBreak |->
         << " ", " ", "\n" >>,
     \* "**<o><c><e><n><k><a>**: "
     Score |->
         << "*", "*", "CY:o", "cy:c", "cy:e", "cy:n", "cy:k", "cy:a", "*", "*", ":", " " >>,
     \* "/10  \n"
     OutOfTen |->
         << "/", "1", "0", " ", " ", "\n" >>,
     \* "**<o><b><o><s><n><o><v><a><n><i><e>**: "
     Justification |->
         << "*", "*", "CY:o", "cy:b", "cy:o", "cy:s", "cy:n", "cy:o", "cy:v", "cy:a", "cy:n",
         "cy:i", "cy:e", "*", "*", ":", " " >>,
     \* "\n\n"
     ParagraphEnd |->
         << "\n", "\n" >>,
     \* "## <t><o><p>-"
     TopHeading |->
         << "#", "#", " ", "CY:t", "CY:o", "CY:p", "-" >>,
     \* " <k><a><n><d><i><d><a><t><o><v>:\n\n"
     Candidates |->
         << " ", "cy:k", "cy:a", "cy:n", "cy:d", "cy:i", "cy:d", "cy:a", "cy:t", "cy:o",
         "cy:v", ":", "\n", "\n" >>,
     \* "### "
     EntryHeading |->
         << "#", "#", "#", " " >>,
     \* ". "
     EntryDot |->
         << ".", " " >>,
     \* "\n"
     Newline |->
         << "\n" >>,
     \* "---\n*<a><n><a><l><i><z> <z><a><v><e><r><sh><e><n>: "
     Finished |->
         << "-", "-", "-", "\n", "*", "CY:a", "cy:n", "cy:a", "cy:l", "cy:i", "cy:z", " ",
         "cy:z", "cy:a", "cy:v", "cy:e", "cy:r", "cy:sh", "cy:e", "cy:n", ":", " " >>,
     \* "* \n"
     FinishedEnd |->
         << "*", " ", "\n" >>]

\* "results.json"
JsonOutputFile ==
    << "r", "e", "s", "u", "l", "t", "s", ".", "j", "s", "o", "n" >>

\* "results.md"
MarkdownOutputFile ==
    << "r", "e", "s", "u", "l", "t", "s", ".", "m", "d" >>

\* "2024-05-17 10:30:00"
AnalysisDate ==
    << "2", "0", "2", "4", "-", "0", "5", "-", "1", "7", " ", "1", "0", ":", "3", "0",
       ":", "0", "0" >>

\* "unsupported format string passed to NoneType.__format__"
MsgFormatNone ==
    << "u", "n", "s", "u", "p", "p", "o", "r", "t", "e", "d", " ", "f", "o", "r", "m",
       "a", "t", " ", "s", "t", "r", "i", "n", "g", " ", "p", "a", "s", "s", "e", "d",
       " ", "t", "o", " ", "N", "o", "n", "e", "T", "y", "p", "e", ".", "_", "_", "f",
       "o", "r", "m", "a", "t", "_", "_" >>

\* "unsupported format string passed to list.__format__"
MsgFormatList ==
    << "u", "n", "s", "u", "p", "p", "o", "r", "t", "e", "d", " ", "f", "o", "r", "m",
       "a", "t", " ", "s", "t", "r", "i", "n", "g", " ", "p", "a", "s", "s", "e", "d",
       " ", "t", "o", " ", "l", "i", "s", "t", ".", "_", "_", "f", "o", "r", "m", "a",
       "t", "_", "_" >>

\* "unsupported format string passed to dict.__format__"
MsgFormatDict ==
    << "u", "n", "s", "u", "p", "p", "o", "r", "t", "e", "d", " ", "f", "o", "r", "m",
       "a", "t", " ", "s", "t", "r", "i", "n", "g", " ", "p", "a", "s", "s", "e", "d",
       " ", "t", "o", " ", "d", "i", "c", "t", ".", "_", "_", "f", "o", "r", "m", "a",
       "t", "_", "_" >>

\* "Unknown format code 'f' for object of type 'str'"
MsgFormatStr ==
    << "U", "n", "k", "n", "o", "w", "n", " ", "f", "o", "r", "m", "a", "t", " ", "c",
       "o", "d", "e", " ", "'", "f", "'", " ", "f", "o", "r", " ", "o", "b", "j", "e",
       "c", "t", " ", "o", "f", " ", "t", "y", "p", "e", " ", "'", "s", "t", "r", "'" >>

\* "None"
NoneText ==
    << "N", "o", "n", "e" >>

\* A piece of an f-string: literal text, or the text of a formatted value
Lit(s) == [k |-> "lit", s |-> s]

Val(s) == [k |-> "val", s |-> s]

\* A number in hundredths with two decimals
fixed2(h) ==
    LET a == IF h < 0 THEN 0 - h ELSE h
    IN  (IF h < 0 THEN << "-" >> ELSE << >>)
            \o str_int(a \div 100)
            \o << ".", Digits[((a % 100) \div 10) + 1], Digits[(a % 10) + 1] >>

\* f"{score:.2f}": only a number takes the format
format_2f(score) ==
    CASE score.t = "num" -> Return(fixed2(score.v))
      [] score.t = "none" -> Raise("TypeError", MsgFormatNone)
      [] score.t = "list" -> Raise("TypeError", MsgFormatList)
      [] score.t = "dict" -> Raise("TypeError", MsgFormatDict)
      [] OTHER -> Raise("ValueError", MsgFormatStr)

\* f"{value}" of a str or of None
py_str(value) == IF value.t = "none" THEN NoneText ELSE value.v

\* Lines 213-217: the entry written for a candidate
report_entry(candidate) ==
    Dict((KeyFileName :> candidate.d[KeyFileName])
            @@ (KeyScore :> candidate.d[KeyScore])
            @@ (KeyJustification :> candidate.d[KeyJustification]))

\* A list of entries that starts after the best candidate
top_candidates_AfterBest(rs, n) ==
    [i \in 1..(Len(slice_to(rs, n)) - 1) |-> report_entry(slice_to(rs, n)[i + 1])]

\* Lines 212-218: [... for candidate in results[:self.top_n]]
top_candidates(rs, n) ==
    [i \in 1..Len(slice_to(rs, n)) |-> report_entry(slice_to(rs, n)[i])]

\* Lines 206-220
json_document(rs, n, date) ==
    [best_candidate |-> report_entry(rs[1]),
     top_candidates |-> top_candidates(rs, n),
     analysis_date |-> date]

\* A caller invokes save_results_to_json(results); self.top_n is n, `date` is
\* the time of the call as formatted, write_ok tells whether open() and
\* json.dump() succeed
save_results_to_json_Call(rs, n, date, write_ok) ==
    /\ pc = "idle"
    /\ op' = "save_results_to_json"
    /\ results' = rs
    /\ top_n' = n
    /\ pc' = "done"
    /\ IF rs = << >>
       THEN saved' = Return(PyNone) /\ UNCHANGED json_data
       ELSE /\ json_data' = json_document(rs, n, date)
            /\ saved' = IF write_ok THEN Return(Str(JsonOutputFile)) ELSE Return(PyNone)
    /\ UNCHANGED << ranked, markdown_content >>
    /\ UNCHANGED << callVars, genVars, batchVars, dataVars, appVars, logVars >>

\* Lines 253-256
md_best(candidate) ==
    << Lit(MdText.BestHeading),
       Lit(MdText.File), Val(py_str(candidate.d[KeyFileName])), Lit(MdText.LineBreak),
       Lit(MdText.Score), Val(format_2f(candidate.d[KeyScore]).val), Lit(MdText.OutOfTen),
       Lit(MdText.Justification), Val(py_str(candidate.d[KeyJustification])),
       Lit(MdText.ParagraphEnd) >>

\* Lines 262-264
md_entry(i, candidate) ==
    << Lit(MdText.EntryHeading), Val(str_int(i)), Lit(MdText.EntryDot),
       Val(py_str(candidate.d[KeyFileName])), Lit(MdText.Newline),
       Lit(MdText.Score), Val(format_2f(candidate.d[KeyScore]).val), Lit(MdText.OutOfTen),
       Lit(MdText.Justification), Val(py_str(candidate.d[KeyJustification])),
       Lit(MdText.ParagraphEnd) >>

\* Lines 261-264: the entries of candidates[1..k], numbered from 1
RECURSIVE md_entries(_, _)
md_entries(candidates, k) ==
    IF k = 0 THEN << >>
    ELSE md_entries(candidates, k - 1) \o md_entry(k, candidates[k])

\* Lines 249-267
markdown_document(rs, n, date) ==
    << Lit(MdText.Title) >>
        \o md_best(rs[1])
        \o << Lit(MdText.TopHeading), Val(str_int(Min2(n, Len(rs)))), Lit(MdText.Candidates) >>
        \o md_entries(slice_to(rs, n), Len(slice_to(rs, n)))
        \o << Lit(MdText.Finished), Val(date), Lit(MdText.FinishedEnd) >>

\* The scores in the order lines 255 and 263 format them
formatted_scores(rs, n) ==
    << rs[1].d[KeyScore] >>
        \o [i \in 1..Len(slice_to(rs, n)) |-> slice_to(rs, n)[i].d[KeyScore]]

\* The first score that does not take the format, 0 if all do
first_unformattable(scores) ==
    LET bad == { i \in 1..Len(scores) : format_2f(scores[i]).st = "raise" }
    IN  IF bad = {} THEN 0 ELSE CHOOSE i \in bad : \A j \in bad : i <= j

\* A caller invokes save_results_to_markdown(results).  The formatting of
\* lines 255 and 263 is outside the try block of line 271.
save_results_to_markdown_Call(rs, n, date, write_ok) ==
    /\ pc = "idle"
    /\ op' = "save_results_to_markdown"
    /\ results' = rs
    /\ top_n' = n
    /\ pc' = "done"
    /\ IF rs = << >>
       THEN saved' = Return(PyNone) /\ UNCHANGED markdown_content
       ELSE LET scores == formatted_scores(rs, n)
                bad == first_unformattable(scores)
            IN  IF bad # 0
                THEN saved' = format_2f(scores[bad]) /\ UNCHANGED markdown_content
                ELSE /\ markdown_content' = markdown_document(rs, n, date)
                     /\ saved' = IF write_ok THEN Return(Str(MarkdownOutputFile))
                                  ELSE Return(PyNone)
    /\ UNCHANGED << ranked, json_data >>
    /\ UNCHANGED << callVars, genVars, batchVars, dataVars, appVars, logVars >>

---------------------------------------------------------------------------
(* Calls and the steps of generate_text *)

\* A caller invokes analyze_with_mock_llm(resume_text, vacancy_text)
analyze_with_mock_llm_Call(resume, vacancy) ==
    /\ pc = "idle"
    /\ op' = "analyze_with_mock_llm"
    /\ resume_text' = resume
    /\ vacancy_text' = vacancy
    /\ outcome' = analyze_with_mock_llm(resume, vacancy)
    /\ pc' = "done"
    /\ UNCHANGED << llm_outcome, branch, sleeps >>
    /\ UNCHANGED << genVars, batchVars, rankVars, dataVars, reportVars, appVars, logVars >>

\* One attempt too many
loop_continues_OneMore(a, n) == a <= n

\* range(max_retries) has another attempt to give
loop_continues(a, n) == a < n

\* A wait that grows by one second an attempt
wait_time_Linear(a, jitter) == (a + 1) * 1000 + jitter

\* wait_time = (2 ** attempt) + random.uniform(0, 1), in ms
wait_time(a, jitter) == (2 ^ a) * 1000 + jitter

generate_text_Return(text) ==
    /\ gen_result' = Return(text)
    /\ pc' = IF op = "analyze_resume" THEN "llm" ELSE "done"

\* One iteration of the loop whose attempt fails: the call raises or answers
\* nothing usable, a warning is logged, and lines 94-96 wait
generate_text_Fail(reply, jitter) ==
    /\ pc = "generate"
    /\ loop_continues(attempt, max_retries)
    /\ ~IsUsable(reply)
    /\ calls' = calls + 1
    /\ last_reply' = reply
    /\ waits' = Append(waits, wait_time(attempt, jitter))
    /\ attempt' = attempt + 1
    /\ UNCHANGED << pc, op, max_retries, gen_result >>
    /\ UNCHANGED << callVars, batchVars, rankVars, dataVars, reportVars, appVars, logVars >>

\* A usable reply handled like a failed attempt: the loop waits and goes on
generate_text_Success_KeepsTrying(reply) ==
    /\ pc = "generate"
    /\ loop_continues(attempt, max_retries)
    /\ IsUsable(reply)
    /\ calls' = calls + 1
    /\ last_reply' = reply
    /\ waits' = Append(waits, wait_time(attempt, 0))
    /\ attempt' = attempt + 1
    /\ UNCHANGED << pc, op, max_retries, gen_result >>
    /\ UNCHANGED << callVars, batchVars, rankVars, dataVars, reportVars, appVars, logVars >>

\* One iteration of the loop whose attempt succeeds: line 86 returns
generate_text_Success(reply) ==
    /\ pc = "generate"
    /\ loop_continues(attempt, max_retries)
    /\ IsUsable(reply)
    /\ calls' = calls + 1
    /\ last_reply' = reply
    /\ generate_text_Return(text_strip(reply.text))
    /\ UNCHANGED << op, max_retries, attempt, waits >>
    /\ UNCHANGED << callVars, batchVars, rankVars, dataVars, reportVars, appVars, logVars >>

\* The loop is exhausted: lines 98-102 return ""
generate_text_Exhausted ==
    /\ pc = "generate"
    /\ ~loop_continues(attempt, max_retries)
    /\ generate_text_Return(<< >>)
    /\ UNCHANGED << op, max_retries, attempt, calls, waits, last_reply >>
    /\ UNCHANGED << callVars, batchVars, rankVars, dataVars, reportVars, appVars, logVars >>

\* LLMInterface.analyze_resume, lines 215-248, on the text generate_text returned
LLMInterface_analyze_resume_Return ==
    /\ pc = "llm"
    /\ llm_outcome' = LLMInterface_analyze_resume(resume_text, vacancy_text,
                                                  gen_result.val)
    /\ pc' = "gate"
    /\ UNCHANGED << op, resume_text, vacancy_text, outcome, branch, sleeps >>
    /\ UNCHANGED << genVars, batchVars, rankVars, dataVars, reportVars, appVars, logVars >>

\* ResumeAnalyzer.analyze_resume, lines 59-82
analyze_resume_Return ==
    /\ pc = "gate"
    /\ LET r == analyze_resume_try(resume_text, vacancy_text, llm_outcome)
       IN  /\ outcome' = r.out
           /\ branch' = r.branch
           /\ sleeps' = sleeps \o r.sleeps
    /\ pc' = "done"
    /\ UNCHANGED << op, resume_text, vacancy_text, llm_outcome >>
    /\ UNCHANGED << genVars, batchVars, rankVars, dataVars, reportVars, appVars, logVars >>

\* ResumeAnalyzerApp.analyze_resumes, lines 123-135: the vacancy is read and the
\* resumes directory listed; with no resume file the empty list is returned
analyze_resumes_Call(n, vacancy) ==
    /\ pc = "idle"
    /\ op' = "analyze_resumes"
    /\ vacancy_text' = vacancy
    /\ resume_files' = [i \in 1..n |-> resume_file_name(i)]
    /\ IF n = 0
       THEN pc' = "done" /\ ranked' = Return(<< >>)
       ELSE pc' = "batch" /\ UNCHANGED ranked
    /\ UNCHANGED << resume_text, llm_outcome, outcome, branch, sleeps, analyzed,
                    results, top_n >>
    /\ UNCHANGED << genVars, dataVars, reportVars, appVars, logVars >>

\* Lines 139-148: one iteration of the loop over the resume files.  The resume
\* read from the file is a text; `response` is what generate_text returns
\* inside the call of analyze_resume.
analyze_resumes_Iterate(resume, response) ==
    /\ pc = "batch"
    /\ Len(results) < Len(resume_files)
    /\ LET r == analyze_resume(resume, vacancy_text, response)
           resume_file == resume_files[Len(results) + 1]
       IN  /\ analyzed' = Append(analyzed, [resume |-> resume, response |-> response])
           /\ sleeps' = sleeps \o r.sleeps
           /\ IF r.out.st = "raise"
              THEN pc' = "done" /\ ranked' = r.out /\ UNCHANGED results
              ELSE /\ results' = Append(results, with_file_name(r.out.val, resume_file))
                   /\ UNCHANGED << pc, ranked >>
    /\ UNCHANGED << op, resume_text, vacancy_text, llm_outcome, outcome, branch,
                    resume_files, top_n >>
    /\ UNCHANGED << genVars, dataVars, reportVars, appVars, logVars >>

\* Lines 150-153: the results are sorted and returned
analyze_resumes_Return ==
    /\ pc = "batch"
    /\ Len(results) = Len(resume_files)
    /\ ranked' = sorted_by_score_desc(results)
    /\ pc' = "done"
    /\ UNCHANGED << op, results, top_n >>
    /\ UNCHANGED << callVars, genVars, batchVars, dataVars, reportVars, appVars, logVars >>

\* A result list as it is handed to the ranking: entry i carries file name i
candidate_list(scores) ==
    [i \in 1..Len(scores) |->
        with_file_name(AnalysisResult(Num(scores[i]), Ok), resume_file_name(i))]

\* A caller invokes ResumeAnalyzer.select_top_candidates(results, top_n)
select_top_candidates_Call(rs, n) ==
    /\ pc = "idle"
    /\ op' = "select_top_candidates"
    /\ results' = rs
    /\ top_n' = n
    /\ ranked' = select_top_candidates(rs, n)
    /\ pc' = "done"
    /\ UNCHANGED << callVars, genVars, batchVars, dataVars, reportVars, appVars, logVars >>

\* A caller invokes ResumeAnalyzer.select_best_candidate(results).  sorted()
\* builds a new list: the list handed in is the same after the call.
select_best_candidate_Call(rs) ==
    /\ pc = "idle"
    /\ op' = "select_best_candidate"
    /\ results' = rs
    /\ ranked' = select_best_candidate(rs)
    /\ pc' = "done"
    /\ UNCHANGED top_n
    /\ UNCHANGED << callVars, genVars, batchVars, dataVars, reportVars, appVars, logVars >>

---------------------------------------------------------------------------
(* The files of a run.  The disk holds the vacancy file, Absent or           *)
(* Return(its text), the resumes directory, Absent or Return(a function from *)
(* file names to file contents), and the result files results.md and         *)
(* results.json, Absent or Return(what was written).                         *)

\* "generation_stats.txt"
StatsFileName ==
    << "g", "e", "n", "e", "r", "a", "t", "i", "o", "n", "_", "s", "t", "a", "t", "s",
       ".", "t", "x", "t" >>

\* "No such file or directory"
MsgNoSuchFile ==
    << "N", "o", " ", "s", "u", "c", "h", " ", "f", "i", "l", "e", " ", "o", "r", " ",
       "d", "i", "r", "e", "c", "t", "o", "r", "y" >>

\* "No space left on device"
MsgNoSpace ==
    << "N", "o", " ", "s", "p", "a", "c", "e", " ", "l", "e", "f", "t", " ", "o", "n",
       " ", "d", "e", "v", "i", "c", "e" >>

startswith(s, prefix) == Len(s) >= Len(prefix) /\ SubSeq(s, 1, Len(prefix)) = prefix

endswith(s, suffix) ==
    Len(s) >= Len(suffix) /\ SubSeq(s, Len(s) - Len(suffix) + 1, Len(s)) = suffix

\* f.startswith("resume_") and f.endswith(".txt")
is_resume_file(f) == startswith(f, FileNamePrefix) /\ endswith(f, FileNameSuffix)

\* os.listdir(resumes_dir): the names in the directory
listdir(d) ==
    IF d.resumes.st = "absent" THEN Raise("FileNotFoundError", MsgNoSuchFile)
    ELSE Return(DOMAIN d.resumes.val)

\* A read that finds an empty file where there is none
open_read_MissingIsEmpty(file) ==
    IF file.st = "absent" THEN Return(Str(<< >>)) ELSE file

\* with open(path, 'r') as f: f.read()
open_read(file) ==
    IF file.st = "absent" THEN Raise("FileNotFoundError", MsgNoSuchFile) ELSE file

\* DataGenerator.generate_vacancy: generate_text returns `text` (it never
\* raises), the file is written, and a failure of the write is raised again
generate_vacancy(d, text, write_ok) ==
    IF write_ok
    THEN [out |-> Return(PyNone), disk |-> [d EXCEPT !.vacancy = Return(text)]]
    ELSE [out |-> Raise("OSError", MsgNoSpace), disk |-> d]

\* What _save_generation_stats writes
generation_stats(created, n) ==
    [t |-> "stats", total_resumes |-> Len(created),
     quality_distribution |-> quality_distribution(n)]

\* Lines 118-156 of DataGenerator.generate_resumes on the files of the output
\* directory: gens[i] is what the i-th generation does, the text that
\* generate_resume returns and whether open() and write() succeed.  A file
\* that exists under the name is replaced.
generate_resumes(files, n, start_index, gens) ==
    LET after[i \in 0..n] ==
            IF i = 0 THEN [files |-> files, resume_files |-> << >>]
            ELSE LET file_name == resume_file_name(start_index + i - 1)
                 IN  IF gens[i].write_ok
                     THEN [files |-> (file_name :> gens[i].text) @@ after[i - 1].files,
                           resume_files |-> Append(after[i - 1].resume_files, file_name)]
                     ELSE after[i - 1]
    IN  after[n]

\* existing_resumes of line 96 (0 where the directory cannot be listed)
existing_resumes(d) ==
    IF listdir(d).st = "raise" THEN 0
    ELSE Cardinality({f \in listdir(d).val : is_resume_file(f)})

\* to_generate of line 100: the generations a call of generate_data makes
to_generate(d, n) ==
    IF listdir(d).st = "raise" \/ existing_resumes(d) >= n THEN 0
    ELSE n - existing_resumes(d)

\* ResumeAnalyzerApp.generate_data on disk d: the vacancy is generated if its
\* file is missing, the resume files are counted, and the missing number of
\* resumes is generated from index existing_resumes + 1 on.  The outcome, the
\* disk afterwards and the files generate_resumes wrote.
generate_data(d, n, vacancy_gen, gens, stats_ok) ==
    LET made == IF d.vacancy.st = "absent"
                THEN generate_vacancy(d, vacancy_gen.text, vacancy_gen.write_ok)
                ELSE [out |-> Return(PyNone), disk |-> d]
        names == listdir(made.disk)
    IN  IF made.out.st = "raise"
        THEN [out |-> made.out, disk |-> made.disk, written |-> << >>]
        ELSE IF names.st = "raise"
        THEN [out |-> names, disk |-> made.disk, written |-> << >>]
        ELSE IF existing_resumes(made.disk) < n
        THEN LET vacancy == open_read(made.disk.vacancy)
                 g == generate_resumes(made.disk.resumes.val,
                                       n - existing_resumes(made.disk),
                                       existing_resumes(made.disk) + 1, gens)
                 files == IF stats_ok
                          THEN (StatsFileName :>
                                   generation_stats(g.resume_files,
                                                    n - existing_resumes(made.disk)))
                                  @@ g.files
                          ELSE g.files
             IN  IF vacancy.st = "raise"
                 THEN [out |-> vacancy, disk |-> made.disk, written |-> << >>]
                 ELSE [out |-> Return(PyNone),
                       disk |-> [made.disk EXCEPT !.resumes = Return(files)],
                       written |-> g.resume_files]
        ELSE [out |-> Return(PyNone), disk |-> made.disk, written |-> << >>]

\* A caller constructs the application with num_resumes = n on disk d and
\* calls generate_data; generate_data_Run is one call of it
generate_data_Call(d, n) ==
    /\ pc = "idle"
    /\ pc' = "data"
    /\ op' = "generate_data"
    /\ disk' = d
    /\ num_resumes' = n
    /\ UNCHANGED << data_calls, app_outcome >>
    /\ UNCHANGED << callVars, genVars, batchVars, rankVars, dataVars, reportVars,
                    logVars >>

generate_data_Run(vacancy_gen, gens, stats_ok) ==
    /\ pc = "data"
    /\ Len(gens) = to_generate(disk, num_resumes)
    /\ LET r == generate_data(disk, num_resumes, vacancy_gen, gens, stats_ok)
       IN  /\ disk' = r.disk
           /\ data_calls' = Append(data_calls,
                  [before |-> disk,
                   vacancy_gen |-> IF disk.vacancy.st = "absent" THEN Return(vacancy_gen)
                                   ELSE Absent,
                   gens |-> gens,
                   written |-> r.written,
                   out |-> r.out])
           /\ sleeps' = sleeps \o [i \in 1..Len(r.written) |-> GenerationDelay]
           /\ pc' = IF r.out.st = "raise" \/ Len(data_calls) + 1 >= MaxDataCalls
                    THEN "done" ELSE "data"
    /\ UNCHANGED << op, num_resumes, app_outcome >>
    /\ UNCHANGED << resume_text, vacancy_text, llm_outcome, outcome, branch >>
    /\ UNCHANGED << genVars, batchVars, rankVars, dataVars, reportVars, logVars >>

---------------------------------------------------------------------------
(* log_analyzer.py: the patterns and parse_log_file.  A line of the log file *)
(* that the logging format wrote starts with the time, the logger's name and *)
(* the level and carries the first line of the message; the further lines of *)
(* a message of several lines are raw text.                                  *)

LogLine(timestamp, module, level, message) ==
    [stamped |-> TRUE, timestamp |-> timestamp, module |-> module, level |-> level,
     message |-> message]

RawLine(text) == [stamped |-> FALSE, message |-> text]

\* TIME_PATTERN.match(line): time, name, level and message of a line that
\* starts with them
TIME_PATTERN_match(line) ==
    IF line.stamped
    THEN Return([timestamp |-> line.timestamp, module |-> line.module,
                 level |-> line.level, message |-> line.message])
    ELSE Absent

\* The literal texts of the three patterns of log_analyzer.py
PatternText ==
    [
     \* "<a><n><a><l><i><z> <r><e><z><yu><m><e> "
     NameHead |->
         << "CY:a", "cy:n", "cy:a", "cy:l", "cy:i", "cy:z", " ", "cy:r", "cy:e", "cy:z",
         "cy:yu", "cy:m", "cy:e", " " >>,
     \* "<a><n><a><l><i><z> <r><e><z><yu><m><e> <v><y><p><o><l><n><e><n> <z><a> "
     TimingHead |->
         << "CY:a", "cy:n", "cy:a", "cy:l", "cy:i", "cy:z", " ", "cy:r", "cy:e", "cy:z",
         "cy:yu", "cy:m", "cy:e", " ", "cy:v", "cy:y", "cy:p", "cy:o", "cy:l", "cy:n",
         "cy:e", "cy:n", " ", "cy:z", "cy:a", " " >>,
     \* " <s><e><k><u><n><d>. <o><c><e><n><k><a>: "
     TimingMid |->
         << " ", "cy:s", "cy:e", "cy:k", "cy:u", "cy:n", "cy:d", ".", " ", "CY:o", "cy:c",
         "cy:e", "cy:n", "cy:k", "cy:a", ":", " " >>,
     \* "/10"
     OutOfTen |->
         << "/", "1", "0" >>,
     \* "<l><u><ch><sh><i><j> <k><a><n><d><i><d><a><t>: "
     BestHead |->
         << "CY:l", "CY:u", "CY:ch", "CY:sh", "CY:i", "CY:j", " ", "CY:k", "CY:a", "CY:n",
         "CY:d", "CY:i", "CY:d", "CY:a", "CY:t", ":", " " >>,
     \* " <s> <o><c><e><n><k><o><j> "
     BestMid |->
         << " ", "cy:s", " ", "cy:o", "cy:c", "cy:e", "cy:n", "cy:k", "cy:o", "cy:j", " " >>]

\* The pieces of a pattern: a literal text, or \d+; g is the number of the
\* group the piece lies in, 0 for none
PLit(s, g) == [k |-> "lit", s |-> s, g |-> g]

PDigits(g) == [k |-> "digits", g |-> g]

\* r'<a><n><a><l><i><z> <r><e><z><yu><m><e> \d+/\d+: (resume_\d+\.txt)'
RESUME_NAME_PATTERN ==
    << PLit(PatternText.NameHead, 0), PDigits(0), PLit(<< "/" >>, 0), PDigits(0),
       PLit(<< ":", " " >>, 0), PLit(FileNamePrefix, 1), PDigits(1),
       PLit(FileNameSuffix, 1) >>

\* r'<a><n><a><l><i><z> <r><e><z><yu><m><e> <v><y><p><o><l><n><e><n> <z><a> (\d+\.\d+) <s><e><k><u><n><d>\. <o><c><e><n><k><a>: (\d+\.\d+)/10'
RESUME_ANALYSIS_TIME_PATTERN ==
    << PLit(PatternText.TimingHead, 0), PDigits(1), PLit(<< "." >>, 1), PDigits(1),
       PLit(PatternText.TimingMid, 0), PDigits(2), PLit(<< "." >>, 2), PDigits(2),
       PLit(PatternText.OutOfTen, 0) >>

\* r'<l><u><ch><sh><i><j> <k><a><n><d><i><d><a><t>: (resume_\d+\.txt) <s> <o><c><e><n><k><o><j> (\d+\.\d+)/10'
BEST_CANDIDATE_PATTERN ==
    << PLit(PatternText.BestHead, 0), PLit(FileNamePrefix, 1), PDigits(1), PLit(FileNameSuffix, 1),
       PLit(PatternText.BestMid, 0), PDigits(2), PLit(<< "." >>, 2), PDigits(2),
       PLit(PatternText.OutOfTen, 0) >>

\* The last position of the longest run of digits of text that starts at p,
\* p - 1 if there is no digit at p
RECURSIVE digits_end(_, _)
digits_end(text, p) ==
    IF p <= Len(text) /\ IsDigit(text[p]) THEN digits_end(text, p + 1) ELSE p - 1

\* The pieces from the k-th on matched at position p of text: Return(the
\* groups) or Absent.  \d+ takes every digit there is: each \d+ of the
\* patterns is followed by a literal that starts with no digit, so a shorter
\* run cannot match where the longest does not.
RECURSIVE match_from(_, _, _, _, _)
match_from(pattern, k, text, p, groups) ==
    IF k > Len(pattern) THEN Return(groups)
    ELSE LET piece == pattern[k]
             q == IF piece.k = "digits" THEN digits_end(text, p)
                  ELSE IF /\ p + Len(piece.s) - 1 <= Len(text)
                          /\ text[p] = piece.s[1]
                          /\ SubSeq(text, p, p + Len(piece.s) - 1) = piece.s
                  THEN p + Len(piece.s) - 1
                  ELSE p - 1
         IN  IF q < p THEN Absent
             ELSE match_from(pattern, k + 1, text, q + 1,
                      IF piece.g = 0 THEN groups
                      ELSE [groups EXCEPT ![piece.g] = @ \o SubSeq(text, p, q)])

\* pattern.search(text): the match at the leftmost position that has one
re_search(pattern, text) ==
    LET starts == {p \in 1..Len(text) :
                      match_from(pattern, 1, text, p, << << >>, << >> >>).st = "return"}
    IN  IF starts = {} THEN Absent
        ELSE match_from(pattern, 1, text, SetMin(starts), << << >>, << >> >>)

\* A scan that keeps the first resume named
current_resume_after_KeepsFirst(current_resume, resume_name_match) ==
    IF current_resume = PyNone /\ resume_name_match.st = "return"
    THEN Str(resume_name_match.val[1])
    ELSE current_resume

\* Lines 105-107: the resume a line names becomes the current one
current_resume_after(current_resume, resume_name_match) ==
    IF resume_name_match.st = "return" THEN Str(resume_name_match.val[1])
    ELSE current_resume

\* Lines 55-67
empty_log_data ==
    [start_time |-> PyNone, end_time |-> PyNone, info_count |-> 0,
     warning_count |-> 0, error_count |-> 0, debug_count |-> 0,
     resume_analyses |-> << >>, best_candidate |-> PyNone, best_score |-> PyInt(0),
     errors |-> << >>, warnings |-> << >>]

\* Lines 75-82: the time of a line, None if the line does not start with one
line_time(line) ==
    IF TIME_PATTERN_match(line).st = "return"
    THEN PyInt(TIME_PATTERN_match(line).val.timestamp) ELSE PyNone

\* Lines 86-124: one line of the loop, on the data collected so far
scan_line(data, current_resume, line) ==
    LET match == TIME_PATTERN_match(line)
    IN  IF match.st # "return" THEN [data |-> data, current_resume |-> current_resume]
        ELSE
          LET level == match.val.level
              message == match.val.message
              entry == << match.val.timestamp, match.val.module, message >>
              current == current_resume_after(current_resume,
                             re_search(RESUME_NAME_PATTERN, message))
              analysis_time_match == re_search(RESUME_ANALYSIS_TIME_PATTERN, message)
              best_candidate_match == re_search(BEST_CANDIDATE_PATTERN, message)
          IN  [data |->
                 [data EXCEPT
                    !.info_count = IF level = "INFO" THEN @ + 1 ELSE @,
                    !.warning_count = IF level = "WARNING" THEN @ + 1 ELSE @,
                    !.warnings = IF level = "WARNING" THEN Append(@, entry) ELSE @,
                    !.error_count = IF level = "ERROR" THEN @ + 1 ELSE @,
                    !.errors = IF level = "ERROR" THEN Append(@, entry) ELSE @,
                    !.debug_count = IF level = "DEBUG" THEN @ + 1 ELSE @,
                    !.resume_analyses =
                        IF analysis_time_match.st = "return" /\ Truthy(current)
                        THEN Append(@, [resume |-> current,
                                        time |-> float_str(analysis_time_match.val[1]).val,
                                        score |-> float_str(analysis_time_match.val[2]).val])
                        ELSE @,
                    !.best_candidate =
                        IF best_candidate_match.st = "return"
                        THEN Str(best_candidate_match.val[1]) ELSE @,
                    !.best_score =
                        IF best_candidate_match.st = "return"
                        THEN float_str(best_candidate_match.val[2]).val ELSE @],
               current_resume |-> current]

\* parse_log_file(log_file) for a file that holds `lines`, Absent for no file:
\* None for a missing file, else the data collected from the lines
parse_log_file(file) ==
    IF file.st = "absent" THEN Return(PyNone)
    ELSE
      LET lines == file.val
          first == IF lines = << >> THEN empty_log_data
                   ELSE [empty_log_data EXCEPT !.start_time = line_time(lines[1]),
                                               !.end_time = line_time(lines[Len(lines)])]
          scan[i \in 0..Len(lines)] ==
              IF i = 0 THEN [data |-> first, current_resume |-> PyNone]
              ELSE LET before == scan[i - 1]
                   IN  scan_line(before.data, before.current_resume, lines[i])
      IN  Return(scan[Len(lines)].data)

\* A caller invokes parse_log_file on a log file
parse_log_file_Call(file) ==
    /\ pc = "idle"
    /\ op' = "parse_log_file"
    /\ log' = IF file.st = "absent" THEN << >> ELSE file.val
    /\ log_data' = parse_log_file(file)
    /\ pc' = "done"
    /\ UNCHANGED << callVars, genVars, batchVars, rankVars, dataVars, reportVars,
                    appVars >>

---------------------------------------------------------------------------
(* The log of a run: the messages of main.py and analyzer.py that run,       *)
(* analyze_resumes, analyze_resume, _fallback_analysis and display_results   *)
(* write.  An entry is a message with its logger and level, or the raw text  *)
(* of a further line of a message.                                           *)

\* The texts of the log messages of main.py
MainLogText ==
    [
     \* "<z><a><p><u><s><k> <p><r><i><l><o><zh><e><n><i><ya> <d><l><ya> <a><n><a><l><i><z><a> <r><e><z><yu><m><e>..."
     Start |->
         << "CY:z", "cy:a", "cy:p", "cy:u", "cy:s", "cy:k", " ", "cy:p", "cy:r", "cy:i",
         "cy:l", "cy:o", "cy:zh", "cy:e", "cy:n", "cy:i", "cy:ya", " ", "cy:d", "cy:l",
         "cy:ya", " ", "cy:a", "cy:n", "cy:a", "cy:l", "cy:i", "cy:z", "cy:a", " ", "cy:r",
         "cy:e", "cy:z", "cy:yu", "cy:m", "cy:e", ".", ".", "." >>,
     \* "<n><a><ch><a><l><o> <a><n><a><l><i><z><a> <r><e><z><yu><m><e>..."
     AnalysisStart |->
         << "CY:n", "cy:a", "cy:ch", "cy:a", "cy:l", "cy:o", " ", "cy:a", "cy:n", "cy:a",
         "cy:l", "cy:i", "cy:z", "cy:a", " ", "cy:r", "cy:e", "cy:z", "cy:yu", "cy:m",
         "cy:e", ".", ".", "." >>,
     \* "<r><e><z><yu><m><e> <n><e> <n><a><j><d><e><n><y>. <u><b><e><d><i><t><e><s><soft>, <ch><t><o> <o><n><i> <b><y><l><i> <s><g><e><n><e><r><i><r><o><v><a><n><y>."
     NoResumes |->
         << "CY:r", "cy:e", "cy:z", "cy:yu", "cy:m", "cy:e", " ", "cy:n", "cy:e", " ", "cy:n",
         "cy:a", "cy:j", "cy:d", "cy:e", "cy:n", "cy:y", ".", " ", "CY:u", "cy:b", "cy:e",
         "cy:d", "cy:i", "cy:t", "cy:e", "cy:s", "cy:soft", ",", " ", "cy:ch", "cy:t",
         "cy:o", " ", "cy:o", "cy:n", "cy:i", " ", "cy:b", "cy:y", "cy:l", "cy:i", " ",
         "cy:s", "cy:g", "cy:e", "cy:n", "cy:e", "cy:r", "cy:i", "cy:r", "cy:o", "cy:v",
         "cy:a", "cy:n", "cy:y", "." >>,
     \* "<a><n><a><l><i><z> <r><e><z><yu><m><e> "
     ProgressHead |->
         << "CY:a", "cy:n", "cy:a", "cy:l", "cy:i", "cy:z", " ", "cy:r", "cy:e", "cy:z",
         "cy:yu", "cy:m", "cy:e", " " >>,
     \* "<n><e><t> <r><e><z><u><l><soft><t><a><t><o><v> <d><l><ya> <o><t><o><b><r><a><zh><e><n><i><ya>."
     NoResults |->
         << "CY:n", "cy:e", "cy:t", " ", "cy:r", "cy:e", "cy:z", "cy:u", "cy:l", "cy:soft",
         "cy:t", "cy:a", "cy:t", "cy:o", "cy:v", " ", "cy:d", "cy:l", "cy:ya", " ", "cy:o",
         "cy:t", "cy:o", "cy:b", "cy:r", "cy:a", "cy:zh", "cy:e", "cy:n", "cy:i", "cy:ya",
         "." >>,
     \* "<l><u><ch><sh><i><j> <k><a><n><d><i><d><a><t>: "
     BestHead |->
         << "CY:l", "CY:u", "CY:ch", "CY:sh", "CY:i", "CY:j", " ", "CY:k", "CY:a", "CY:n",
         "CY:d", "CY:i", "CY:d", "CY:a", "CY:t", ":", " " >>,
     \* " <s> <o><c><e><n><k><o><j> "
     BestMid |->
         << " ", "cy:s", " ", "cy:o", "cy:c", "cy:e", "cy:n", "cy:k", "cy:o", "cy:j", " " >>,
     \* "<p><o><d><r><o><b><n><y><e> <r><e><z><u><l><soft><t><a><t><y> <a><n><a><l><i><z><a>:"
     Details |->
         << "CY:p", "cy:o", "cy:d", "cy:r", "cy:o", "cy:b", "cy:n", "cy:y", "cy:e", " ",
         "cy:r", "cy:e", "cy:z", "cy:u", "cy:l", "cy:soft", "cy:t", "cy:a", "cy:t", "cy:y",
         " ", "cy:a", "cy:n", "cy:a", "cy:l", "cy:i", "cy:z", "cy:a", ":" >>,
     \* "<a><n><a><l><i><z> <r><e><z><yu><m><e> <z><a><v><e><r><sh><e><n> <u><s><p><e><sh><n><o>."
     Finished |->
         << "CY:a", "cy:n", "cy:a", "cy:l", "cy:i", "cy:z", " ", "cy:r", "cy:e", "cy:z",
         "cy:yu", "cy:m", "cy:e", " ", "cy:z", "cy:a", "cy:v", "cy:e", "cy:r", "cy:sh",
         "cy:e", "cy:n", " ", "cy:u", "cy:s", "cy:p", "cy:e", "cy:sh", "cy:n", "cy:o", "." >>,
     \* "<p><r><o><i><z><o><sh><l><a> <o><sh><i><b><k><a> <p><r><i> <v><y><p><o><l><n><e><n><i><i> <p><r><o><g><r><a><m><m><y>: "
     RunError |->
         << "CY:p", "cy:r", "cy:o", "cy:i", "cy:z", "cy:o", "cy:sh", "cy:l", "cy:a", " ",
         "cy:o", "cy:sh", "cy:i", "cy:b", "cy:k", "cy:a", " ", "cy:p", "cy:r", "cy:i", " ",
         "cy:v", "cy:y", "cy:p", "cy:o", "cy:l", "cy:n", "cy:e", "cy:n", "cy:i", "cy:i",
         " ", "cy:p", "cy:r", "cy:o", "cy:g", "cy:r", "cy:a", "cy:m", "cy:m", "cy:y", ":",
         " " >>]

\* The texts of the log messages of analyzer.py
AnalyzerLogText ==
    [
     \* "<a><n><a><l><i><z> <s><o><o><t><v><e><t><s><t><v><i><ya> <r><e><z><yu><m><e> <v><a><k><a><n><s><i><i>"
     Matching |->
         << "CY:a", "cy:n", "cy:a", "cy:l", "cy:i", "cy:z", " ", "cy:s", "cy:o", "cy:o",
         "cy:t", "cy:v", "cy:e", "cy:t", "cy:s", "cy:t", "cy:v", "cy:i", "cy:ya", " ",
         "cy:r", "cy:e", "cy:z", "cy:yu", "cy:m", "cy:e", " ", "cy:v", "cy:a", "cy:k",
         "cy:a", "cy:n", "cy:s", "cy:i", "cy:i" >>,
     \* "<v> <r><e><z><u><l><soft><t><a><t><e> <a><n><a><l><i><z><a> <o><t><s><u><t><s><t><v><u><yu><t> <n><e><o><b><h><o><d><i><m><y><e> <p><o><l><ya> <i><l><i> <o><b><o><s><n><o><v><a><n><i><e> <n><e><k><o><r><r><e><k><t><n><o>"
     Gate |->
         << "CY:v", " ", "cy:r", "cy:e", "cy:z", "cy:u", "cy:l", "cy:soft", "cy:t", "cy:a",
         "cy:t", "cy:e", " ", "cy:a", "cy:n", "cy:a", "cy:l", "cy:i", "cy:z", "cy:a", " ",
         "cy:o", "cy:t", "cy:s", "cy:u", "cy:t", "cy:s", "cy:t", "cy:v", "cy:u", "cy:yu",
         "cy:t", " ", "cy:n", "cy:e", "cy:o", "cy:b", "cy:h", "cy:o", "cy:d", "cy:i",
         "cy:m", "cy:y", "cy:e", " ", "cy:p", "cy:o", "cy:l", "cy:ya", " ", "cy:i", "cy:l",
         "cy:i", " ", "cy:o", "cy:b", "cy:o", "cy:s", "cy:n", "cy:o", "cy:v", "cy:a",
         "cy:n", "cy:i", "cy:e", " ", "cy:n", "cy:e", "cy:k", "cy:o", "cy:r", "cy:r",
         "cy:e", "cy:k", "cy:t", "cy:n", "cy:o" >>,
     \* "<a><n><a><l><i><z> <r><e><z><yu><m><e> <v><y><p><o><l><n><e><n> <z><a> "
     DoneHead |->
         << "CY:a", "cy:n", "cy:a", "cy:l", "cy:i", "cy:z", " ", "cy:r", "cy:e", "cy:z",
         "cy:yu", "cy:m", "cy:e", " ", "cy:v", "cy:y", "cy:p", "cy:o", "cy:l", "cy:n",
         "cy:e", "cy:n", " ", "cy:z", "cy:a", " " >>,
     \* " <s><e><k><u><n><d>. <o><c><e><n><k><a>: "
     SecondsScore |->
         << " ", "cy:s", "cy:e", "cy:k", "cy:u", "cy:n", "cy:d", ".", " ", "CY:o", "cy:c",
         "cy:e", "cy:n", "cy:k", "cy:a", ":", " " >>,
     \* "/10"
     OutOfTen |->
         << "/", "1", "0" >>,
     \* "<o><sh><i><b><k><a> <p><r><i> <a><n><a><l><i><z><e> <r><e><z><yu><m><e>: "
     Error |->
         << "CY:o", "cy:sh", "cy:i", "cy:b", "cy:k", "cy:a", " ", "cy:p", "cy:r", "cy:i", " ",
         "cy:a", "cy:n", "cy:a", "cy:l", "cy:i", "cy:z", "cy:e", " ", "cy:r", "cy:e",
         "cy:z", "cy:yu", "cy:m", "cy:e", ":", " " >>,
     \* "<a><n><a><l><i><z> <r><e><z><yu><m><e> <z><a><v><e><r><sh><i><l><s><ya> <s> <o><sh><i><b><k><o><j> <z><a> "
     FailedHead |->
         << "CY:a", "cy:n", "cy:a", "cy:l", "cy:i", "cy:z", " ", "cy:r", "cy:e", "cy:z",
         "cy:yu", "cy:m", "cy:e", " ", "cy:z", "cy:a", "cy:v", "cy:e", "cy:r", "cy:sh",
         "cy:i", "cy:l", "cy:s", "cy:ya", " ", "cy:s", " ", "cy:o", "cy:sh", "cy:i", "cy:b",
         "cy:k", "cy:o", "cy:j", " ", "cy:z", "cy:a", " " >>,
     \* " <s><e><k><u><n><d>"
     Seconds |->
         << " ", "cy:s", "cy:e", "cy:k", "cy:u", "cy:n", "cy:d" >>,
     \* "<i><s><p><o><l><soft><z><o><v><a><n><i><e> <z><a><p><a><s><n><o><g><o> <m><e><t><o><d><a> <a><n><a><l><i><z><a> <r><e><z><yu><m><e>"
     Fallback |->
         << "CY:i", "cy:s", "cy:p", "cy:o", "cy:l", "cy:soft", "cy:z", "cy:o", "cy:v", "cy:a",
         "cy:n", "cy:i", "cy:e", " ", "cy:z", "cy:a", "cy:p", "cy:a", "cy:s", "cy:n",
         "cy:o", "cy:g", "cy:o", " ", "cy:m", "cy:e", "cy:t", "cy:o", "cy:d", "cy:a", " ",
         "cy:a", "cy:n", "cy:a", "cy:l", "cy:i", "cy:z", "cy:a", " ", "cy:r", "cy:e",
         "cy:z", "cy:yu", "cy:m", "cy:e" >>,
     \* "<z><a><p><a><s><n><o><j> <a><n><a><l><i><z> <v><y><p><o><l><n><e><n> <z><a> "
     FallbackHead |->
         << "CY:z", "cy:a", "cy:p", "cy:a", "cy:s", "cy:n", "cy:o", "cy:j", " ", "cy:a",
         "cy:n", "cy:a", "cy:l", "cy:i", "cy:z", " ", "cy:v", "cy:y", "cy:p", "cy:o",
         "cy:l", "cy:n", "cy:e", "cy:n", " ", "cy:z", "cy:a", " " >>,
     \* "<o><sh><i><b><k><a> <p><r><i> <z><a><p><a><s><n><o><m> <a><n><a><l><i><z><e> <r><e><z><yu><m><e>: "
     FallbackError |->
         << "CY:o", "cy:sh", "cy:i", "cy:b", "cy:k", "cy:a", " ", "cy:p", "cy:r", "cy:i", " ",
         "cy:z", "cy:a", "cy:p", "cy:a", "cy:s", "cy:n", "cy:o", "cy:m", " ", "cy:a",
         "cy:n", "cy:a", "cy:l", "cy:i", "cy:z", "cy:e", " ", "cy:r", "cy:e", "cy:z",
         "cy:yu", "cy:m", "cy:e", ":", " " >>]

\* "__main__"
LoggerMain ==
    << "_", "_", "m", "a", "i", "n", "_", "_" >>

\* "analyzer"
LoggerAnalyzer ==
    << "a", "n", "a", "l", "y", "z", "e", "r" >>

Entry(module, level, message) ==
    [raw |-> FALSE, module |-> module, level |-> level, message |-> message]

RawEntry(text) == [raw |-> TRUE, message |-> text]

\* The lines the entries make in a log file that holds `before` lines: the
\* time of a line is its number
log_lines(before, entries) ==
    [i \in 1..Len(entries) |->
        IF entries[i].raw THEN RawLine(entries[i].message)
        ELSE LogLine(before + i, entries[i].module, entries[i].level,
                     entries[i].message)]

\* repr of a float given in hundredths: the shortest decimal, one fractional
\* digit at least
float_repr(h) ==
    LET a == IF h < 0 THEN 0 - h ELSE h
    IN  (IF h < 0 THEN << "-" >> ELSE << >>)
            \o str_int(a \div 100) \o << "." >>
            \o (IF a % 10 = 0 THEN << Digits[((a % 100) \div 10) + 1] >>
                ELSE << Digits[((a % 100) \div 10) + 1], Digits[(a % 10) + 1] >>)

\* f"{value}" of a score: an int prints without a point, a float with one.
\* The lists and dicts that stand as scores are empty.
score_str(value) ==
    CASE value.t = "num" /\ is_int(value) ->
             (IF value.v < 0 THEN << "-" >> \o str_int((0 - value.v) \div 100)
              ELSE str_int(value.v \div 100))
      [] value.t = "num" /\ ~is_int(value) -> float_repr(value.v)
      [] value.t = "none" -> NoneText
      [] value.t = "list" -> << "[", "]" >>
      [] value.t = "dict" -> << "{", "}" >>
      [] OTHER -> value.v

\* result.get('score', 0)
get_score(result) == IF HasKey(result, KeyScore) THEN score_of(result) ELSE PyInt(0)

\* main.py line 145
analysis_progress_message(i, n, resume_file) ==
    MainLogText.ProgressHead \o str_int(i) \o << "/" >> \o str_int(n) \o << ":", " " >>
        \o resume_file

\* analyzer.py line 69; elapsed is in hundredths of a second
analysis_done_message(elapsed, result) ==
    AnalyzerLogText.DoneHead \o fixed2(elapsed) \o AnalyzerLogText.SecondsScore \o score_str(get_score(result))
        \o AnalyzerLogText.OutOfTen

\* analyzer.py line 106
fallback_done_message(elapsed, result) ==
    AnalyzerLogText.FallbackHead \o fixed2(elapsed) \o AnalyzerLogText.SecondsScore
        \o score_str(get_score(result)) \o AnalyzerLogText.OutOfTen

\* main.py line 168
best_candidate_message(best_candidate) ==
    MainLogText.BestHead \o py_str(best_candidate.d[KeyFileName]) \o MainLogText.BestMid
        \o format_2f(best_candidate.d[KeyScore]).val \o AnalyzerLogText.OutOfTen

\* What _fallback_analysis logs; the scorer takes less than a hundredth of a
\* second
fallback_analysis_log(resume, vacancy) ==
    LET mock == analyze_with_mock_llm(resume, vacancy)
    IN  << Entry(LoggerAnalyzer, "INFO", AnalyzerLogText.Fallback) >>
            \o (IF mock.st = "return"
                THEN << Entry(LoggerAnalyzer, "INFO", fallback_done_message(0, mock.val)) >>
                ELSE << Entry(LoggerAnalyzer, "ERROR", AnalyzerLogText.FallbackError \o mock.msg) >>)

\* What ResumeAnalyzer.analyze_resume logs, given the text generate_text
\* returns and the time line 68 measures
analyze_resume_log(resume, vacancy, response, elapsed) ==
    LET preview == resume_preview(resume)
        llm == LLMInterface_analyze_resume(resume, vacancy, response)
        r == analyze_resume_try(resume, vacancy, llm)
        start == << Entry(LoggerAnalyzer, "INFO", AnalyzerLogText.Matching) >>
        done == << Entry(LoggerAnalyzer, "INFO", analysis_done_message(elapsed, r.out.val)) >>
    IN  IF preview.st = "raise" THEN start
        ELSE IF r.branch = "except"
        THEN start
               \o << Entry(LoggerAnalyzer, "ERROR", AnalyzerLogText.Error \o llm.out.msg),
                     Entry(LoggerAnalyzer, "INFO",
                           AnalyzerLogText.FailedHead \o fixed2(elapsed) \o AnalyzerLogText.Seconds) >>
               \o fallback_analysis_log(resume, vacancy)
        ELSE IF r.branch = "gate"
        THEN start
               \o << Entry(LoggerAnalyzer, "WARNING", AnalyzerLogText.Gate) >>
               \o fallback_analysis_log(resume, vacancy)
               \o done
        ELSE start \o done

---------------------------------------------------------------------------
(* ResumeAnalyzerApp.run, step by step: generate_data, analyze_resumes,      *)
(* display_results, save_results_to_markdown, save_results_to_json.  The     *)
(* disk is shared with the rest of the machine: between generate_data and    *)
(* analyze_resumes the vacancy file or the resumes directory may be removed. *)
(* The log holds the lines of run, analyze_resumes, display_results and      *)
(* ResumeAnalyzer; the lines of generate_data, DataGenerator, LLMInterface   *)
(* and the two writers hold the text of none of the log analyzer's patterns  *)
(* and are left out.                                                         *)

\* top_n=5, the default of ResumeAnalyzerApp
DefaultTopN == 5

\* The log with further entries written to it
logged(entries) == log \o log_lines(Len(log), entries)

\* Every order os.listdir may give the names in
orderings(S) ==
    { s \in [1..Cardinality(S) -> S] : \A i, j \in 1..Cardinality(S) : i # j => s[i] # s[j] }

\* Lines 130-131: the resume files of the directory
resume_names(d) ==
    IF listdir(d).st = "raise" THEN {} ELSE { f \in listdir(d).val : is_resume_file(f) }

\* Lines 303-305: the error is logged and raised again
run_Raise(exc, entries) ==
    /\ app_outcome' = exc
    /\ pc' = "done"
    /\ log' = logged(entries \o << Entry(LoggerMain, "ERROR", MainLogText.RunError \o exc.msg) >>)

\* A caller constructs the application with num_resumes = n on disk d and
\* calls run
run_Call(d, n) ==
    /\ pc = "idle"
    /\ pc' = "run_generate"
    /\ op' = "run"
    /\ disk' = d
    /\ num_resumes' = n
    /\ top_n' = DefaultTopN
    /\ log' = logged(<< Entry(LoggerMain, "INFO", MainLogText.Start) >>)
    /\ UNCHANGED << data_calls, app_outcome, log_data, results, ranked >>
    /\ UNCHANGED << callVars, genVars, batchVars, dataVars, reportVars >>

\* Line 289: self.generate_data()
run_generate_data(vacancy_gen, gens, stats_ok) ==
    /\ pc = "run_generate"
    /\ Len(gens) = to_generate(disk, num_resumes)
    /\ LET r == generate_data(disk, num_resumes, vacancy_gen, gens, stats_ok)
       IN  /\ disk' = r.disk
           /\ data_calls' = Append(data_calls,
                  [before |-> disk,
                   vacancy_gen |-> IF disk.vacancy.st = "absent" THEN Return(vacancy_gen)
                                   ELSE Absent,
                   gens |-> gens,
                   written |-> r.written,
                   out |-> r.out])
           /\ sleeps' = sleeps \o [i \in 1..Len(r.written) |-> GenerationDelay]
           /\ IF r.out.st = "raise"
              THEN run_Raise(r.out, << >>)
              ELSE pc' = "run_analyze" /\ UNCHANGED << app_outcome, log >>
    /\ UNCHANGED << op, num_resumes, log_data >>
    /\ UNCHANGED << resume_text, vacancy_text, llm_outcome, outcome, branch >>
    /\ UNCHANGED << genVars, batchVars, rankVars, dataVars, reportVars >>

\* The vacancy file is removed from outside before analyze_resumes opens it
vacancy_file_Removed ==
    /\ pc = "run_analyze"
    /\ disk.vacancy.st = "return"
    /\ disk' = [disk EXCEPT !.vacancy = Absent]
    /\ UNCHANGED << pc, op, num_resumes, data_calls, app_outcome >>
    /\ UNCHANGED << callVars, genVars, batchVars, rankVars, dataVars, reportVars,
                    logVars >>

\* The resumes directory is removed from outside before analyze_resumes lists
\* it or before it opens the next resume file
resumes_dir_Removed ==
    /\ pc = "run_analyze" \/ (pc = "run_batch" /\ Len(results) < Len(resume_files))
    /\ disk.resumes.st = "return"
    /\ disk' = [disk EXCEPT !.resumes = Absent]
    /\ UNCHANGED << pc, op, num_resumes, data_calls, app_outcome >>
    /\ UNCHANGED << callVars, genVars, batchVars, rankVars, dataVars, reportVars,
                    logVars >>

\* Lines 123-135 of analyze_resumes inside run: the vacancy is read and the
\* directory listed, in the order `listing`
run_analyze_resumes_Open(listing) ==
    /\ pc = "run_analyze"
    /\ listing \in orderings(resume_names(disk))
    /\ LET vacancy == open_read(disk.vacancy)
           names == listdir(disk)
           start == << Entry(LoggerMain, "INFO", MainLogText.AnalysisStart) >>
       IN  IF vacancy.st = "raise"
           THEN /\ run_Raise(vacancy, start)
                /\ UNCHANGED << vacancy_text, resume_files, ranked >>
           ELSE IF names.st = "raise"
           THEN /\ run_Raise(names, start)
                /\ vacancy_text' = vacancy.val
                /\ UNCHANGED << resume_files, ranked >>
           ELSE /\ vacancy_text' = vacancy.val
                /\ resume_files' = listing
                /\ UNCHANGED app_outcome
                /\ IF listing = << >>
                   THEN /\ log' = logged(start
                                     \o << Entry(LoggerMain, "ERROR", MainLogText.NoResumes) >>)
                        /\ ranked' = Return(<< >>)
                        /\ pc' = "run_display"
                   ELSE /\ log' = logged(start)
                        /\ pc' = "run_batch"
                        /\ UNCHANGED ranked
    /\ UNCHANGED << op, disk, num_resumes, data_calls, log_data >>
    /\ UNCHANGED << resume_text, llm_outcome, outcome, branch, sleeps, analyzed,
                    results, top_n >>
    /\ UNCHANGED << genVars, dataVars, reportVars >>

\* Lines 139-148 inside run: one resume file is read and analyzed; `response`
\* is what generate_text returns inside analyze_resume, `elapsed` the time
\* line 68 of analyzer.py measures
run_analyze_resumes_Iterate(response, elapsed) ==
    /\ pc = "run_batch"
    /\ Len(results) < Len(resume_files)
    /\ LET i == Len(results) + 1
           resume_file == resume_files[i]
           resume == open_read(IF /\ disk.resumes.st = "return"
                                  /\ resume_file \in DOMAIN disk.resumes.val
                               THEN Return(disk.resumes.val[resume_file])
                               ELSE Absent)
           progress == << Entry(LoggerMain, "INFO",
                                analysis_progress_message(i, Len(resume_files),
                                                          resume_file)) >>
       IN  IF resume.st = "raise"
           THEN /\ run_Raise(resume, << >>)
                /\ UNCHANGED << analyzed, sleeps, results >>
           ELSE LET r == analyze_resume(resume.val, vacancy_text, response)
                IN  /\ analyzed' = Append(analyzed,
                                          [resume |-> resume.val, response |-> response])
                    /\ sleeps' = sleeps \o r.sleeps
                    /\ IF r.out.st = "raise"
                       THEN /\ run_Raise(r.out,
                                   progress \o analyze_resume_log(resume.val, vacancy_text,
                                                                  response, elapsed))
                            /\ UNCHANGED results
                       ELSE /\ results' = Append(results,
                                                 with_file_name(r.out.val, resume_file))
                            /\ log' = logged(progress
                                        \o analyze_resume_log(resume.val, vacancy_text,
                                                              response, elapsed))
                            /\ UNCHANGED << pc, app_outcome >>
    /\ UNCHANGED << op, disk, num_resumes, data_calls, log_data >>
    /\ UNCHANGED << resume_text, vacancy_text, llm_outcome, outcome, branch,
                    resume_files, top_n, ranked >>
    /\ UNCHANGED << genVars, dataVars, reportVars >>

\* Lines 150-153 inside run: the results are sorted
run_analyze_resumes_Return ==
    /\ pc = "run_batch"
    /\ Len(results) = Len(resume_files)
    /\ LET sorted_results == sorted_by_score_desc(results)
       IN  IF sorted_results.st = "raise"
           THEN run_Raise(sorted_results, << >>) /\ UNCHANGED ranked
           ELSE /\ ranked' = sorted_results
                /\ pc' = "run_display"
                /\ UNCHANGED << app_outcome, log >>
    /\ UNCHANGED << op, disk, num_resumes, data_calls, log_data, results, top_n >>
    /\ UNCHANGED << callVars, genVars, batchVars, dataVars, reportVars >>

\* Line 295: display_results(results).  The best candidate is announced
\* (line 168) and the summary is built (lines 170-184) and logged, its first
\* lines as further lines of one message; a score that does not take the
\* format :.2f raises.
run_display_results ==
    /\ pc = "run_display"
    /\ LET rs == ranked.val
           scores == formatted_scores(rs, top_n)
           bad == first_unformattable(scores)
           announced == << Entry(LoggerMain, "INFO", best_candidate_message(rs[1])) >>
       IN  IF rs = << >>
           THEN /\ log' = logged(<< Entry(LoggerMain, "WARNING", MainLogText.NoResults) >>)
                /\ pc' = "run_markdown"
                /\ UNCHANGED app_outcome
           ELSE IF bad = 1
           THEN run_Raise(format_2f(scores[bad]), << >>)
           ELSE IF bad # 0
           THEN run_Raise(format_2f(scores[bad]), announced)
           ELSE /\ log' = logged(announced
                           \o << Entry(LoggerMain, "INFO", MainLogText.Details),
                                 RawEntry(MainLogText.BestHead \o py_str(rs[1].d[KeyFileName])) >>)
                /\ pc' = "run_markdown"
                /\ UNCHANGED app_outcome
    /\ UNCHANGED << op, disk, num_resumes, data_calls, log_data >>
    /\ UNCHANGED << callVars, genVars, batchVars, rankVars, dataVars, reportVars >>

\* Line 298: save_results_to_markdown(results); the scores took the format in
\* display_results already
run_save_results_to_markdown(date, write_ok) ==
    /\ pc = "run_markdown"
    /\ pc' = "run_json"
    /\ IF ranked.val = << >>
       THEN UNCHANGED << markdown_content, disk >>
       ELSE /\ markdown_content' = markdown_document(ranked.val, top_n, date)
            /\ disk' = IF write_ok
                       THEN [disk EXCEPT !.markdown =
                                Return(markdown_document(ranked.val, top_n, date))]
                       ELSE disk
    /\ saved' = IF ranked.val # << >> /\ write_ok THEN Return(Str(MarkdownOutputFile))
                ELSE Return(PyNone)
    /\ UNCHANGED << op, num_resumes, data_calls, app_outcome, json_data >>
    /\ UNCHANGED << callVars, genVars, batchVars, rankVars, dataVars, logVars >>

\* Lines 299-301: save_results_to_json(results), and run is finished
run_save_results_to_json(date, write_ok) ==
    /\ pc = "run_json"
    /\ pc' = "done"
    /\ IF ranked.val = << >>
       THEN UNCHANGED << json_data, disk >>
       ELSE /\ json_data' = json_document(ranked.val, top_n, date)
            /\ disk' = IF write_ok
                       THEN [disk EXCEPT !.json =
                                Return(json_document(ranked.val, top_n, date))]
                       ELSE disk
    /\ saved' = IF ranked.val # << >> /\ write_ok THEN Return(Str(JsonOutputFile))
                ELSE Return(PyNone)
    /\ app_outcome' = Return(PyNone)
    /\ log' = logged(<< Entry(LoggerMain, "INFO", MainLogText.Finished) >>)
    /\ UNCHANGED << op, num_resumes, data_calls, log_data, markdown_content >>
    /\ UNCHANGED << callVars, genVars, batchVars, rankVars, dataVars >>

\* Directories a run may find: any of the first three resume files, each
\* holding a resume written earlier
Directories ==
    { [f \in S |-> Str(ResumeSenior)] :
        S \in SUBSET { resume_file_name(i) : i \in 1..3 } }

\* Disks a run may find: with or without the vacancy file, without the resumes
\* directory or with one of the directories, and no result file yet
Disks ==
    { [vacancy |-> v, resumes |-> r, markdown |-> Absent, json |-> Absent] :
        v \in { Absent, Return(Str(VacancyPython)) },
        r \in { Absent } \cup { Return(files) : files \in Directories } }

\* The disks of a whole run: those with at most the first two resume files
RunDisks ==
    { d \in Disks :
        d.resumes.st = "return" => DOMAIN d.resumes.val \subseteq
                                      { resume_file_name(1), resume_file_name(2) } }

\* What generate_text returns inside the analysis of one resume of a run: ""
\* after failed attempts, an object with an int score, one with a float score,
\* one without a justification, one with the score null
RunResponses ==
    { << >>,
      << Scored(PyInt(9), Ok) >>,
      << Scored(Num(900), Ok) >>,
      << Scored(Num(800), Str(<< >>)) >>,
      << Scored(PyNone, Ok) >> }

\* Times an analysis takes, in hundredths of a second
ElapsedTimes == { 5, 1234 }

\* The time the analysis of a resume takes inside a run, in hundredths of a
\* second
RunElapsedTimes == { 1234 }

\* Entries a log file may hold: the progress lines of two resumes, the line of
\* a finished analysis with a float and with an int score, announcements of a
\* best candidate, a warning, and a further line of the summary
LogEntries ==
    { Entry(LoggerMain, "INFO", analysis_progress_message(1, 2, resume_file_name(1))),
      Entry(LoggerMain, "INFO", analysis_progress_message(2, 2, resume_file_name(2))),
      Entry(LoggerAnalyzer, "INFO",
            analysis_done_message(1234, AnalysisResult(Num(750), Ok))),
      Entry(LoggerAnalyzer, "INFO",
            analysis_done_message(5, AnalysisResult(PyInt(9), Ok))),
      Entry(LoggerMain, "INFO",
            best_candidate_message(
                with_file_name(AnalysisResult(Num(750), Ok), resume_file_name(1)))),
      Entry(LoggerMain, "INFO",
            best_candidate_message(
                with_file_name(AnalysisResult(PyInt(9), Ok), resume_file_name(2)))),
      Entry(LoggerAnalyzer, "WARNING", AnalyzerLogText.Gate),
      RawEntry(MainLogText.BestHead \o resume_file_name(1)) }

\* Log files: none, or one of up to MaxLogLines lines
LogFiles ==
    { Absent } \cup { Return(log_lines(0, entries)) :
                        entries \in SeqsUpTo(LogEntries, MaxLogLines) }

\* Times of a run as strftime("%Y-%m-%d %H:%M:%S") gives them
AnalysisDates == { AnalysisDate }

\* Lists as analyze_resumes returns them: ranked lists with numeric scores,
\* and the list of one result whose score is None
RankedLists ==
    { sorted_by_score_desc(candidate_list(scores)).val :
        scores \in SeqsUpTo(RankScores, MaxResults) }
      \cup { << with_file_name(AnalysisResult(PyNone, Ok), resume_file_name(1)) >> }

Next ==
    \/ /\ pc = "idle"
       /\ \E n \in 1..MaxRetriesArg : generate_text_Call(n)
    \/ /\ pc = "idle"
       /\ \E resume \in TextResumes \cup OtherResumes,
             vacancy \in TextVacancies \cup OtherVacancies :
               analyze_resume_Call(resume, vacancy)
    \/ /\ pc = "idle"
       /\ \E resume \in TextResumes \cup OtherResumes,
             vacancy \in TextVacancies \cup OtherVacancies :
               analyze_with_mock_llm_Call(resume, vacancy)
    \/ /\ pc = "generate"
       /\ \E reply \in RemoteReplies, jitter \in Jitters :
               generate_text_Fail(reply, jitter)
    \/ /\ pc = "generate"
       /\ \E reply \in RemoteReplies : generate_text_Success(reply)
    \/ generate_text_Exhausted
    \/ LLMInterface_analyze_resume_Return
    \/ analyze_resume_Return
    \/ /\ pc = "idle"
       /\ \E n \in 0..MaxFiles, vacancy \in TextVacancies :
               analyze_resumes_Call(n, vacancy)
    \/ /\ pc = "batch"
       /\ \E resume \in BatchResumes,
             response \in BatchResponses \cap GenerateTextReturns :
               analyze_resumes_Iterate(resume, response)
    \/ analyze_resumes_Return
    \/ /\ pc = "idle"
       /\ \E scores \in SeqsUpTo(RankScores, MaxResults), n \in 0..MaxTopN :
               select_top_candidates_Call(candidate_list(scores), n)
    \/ /\ pc = "idle"
       /\ \E scores \in SeqsUpTo(RankScores, MaxResults) :
               select_best_candidate_Call(candidate_list(scores))
    \/ /\ pc = "idle"
       /\ \E rs \in RankedLists, n \in 0..MaxTopN, date \in AnalysisDates,
             write_ok \in BOOLEAN :
               save_results_to_json_Call(rs, n, date, write_ok)
    \/ /\ pc = "idle"
       /\ \E rs \in RankedLists, n \in 0..MaxTopN, date \in AnalysisDates,
             write_ok \in BOOLEAN :
               save_results_to_markdown_Call(rs, n, date, write_ok)
    \/ /\ pc = "idle"
       /\ \E n \in 0..MaxCount :
             \E shuffled \in shuffles(quality_levels_list(n)) :
               generate_resumes_Call(n, shuffled)
    \/ /\ pc = "resumes"
       /\ \E text \in GeneratedTexts \cap GenerateTextReturns, write_ok \in BOOLEAN :
               generate_resumes_Iterate(text, write_ok)
    \/ generate_resumes_Return
    \/ /\ pc = "idle"
       /\ \E d \in Disks, n \in 0..MaxNumResumes : generate_data_Call(d, n)
    \/ /\ pc = "data"
       /\ \E vacancy_gen \in VacancyGens,
             gens \in [1..to_generate(disk, num_resumes) -> ResumeGens],
             stats_ok \in BOOLEAN :
               generate_data_Run(vacancy_gen, gens, stats_ok)
    \/ /\ pc = "idle"
       /\ \E file \in LogFiles : parse_log_file_Call(file)
    \/ /\ pc = "idle"
       /\ \E d \in RunDisks, n \in 0..MaxRunResumes : run_Call(d, n)
    \/ /\ pc = "run_generate"
       /\ \E vacancy_gen \in VacancyGens,
             gens \in [1..to_generate(disk, num_resumes) -> ResumeGens],
             stats_ok \in BOOLEAN :
               run_generate_data(vacancy_gen, gens, stats_ok)
    \/ vacancy_file_Removed
    \/ resumes_dir_Removed
    \/ /\ pc = "run_analyze"
       /\ \E listing \in orderings(resume_names(disk)) :
               run_analyze_resumes_Open(listing)
    \/ /\ pc = "run_batch"
       /\ \E response \in RunResponses \cap GenerateTextReturns,
             elapsed \in RunElapsedTimes :
               run_analyze_resumes_Iterate(response, elapsed)
    \/ run_analyze_resumes_Return
    \/ run_display_results
    \/ /\ pc = "run_markdown"
       /\ \E date \in AnalysisDates, write_ok \in BOOLEAN :
               run_save_results_to_markdown(date, write_ok)
    \/ /\ pc = "run_json"
       /\ \E date \in AnalysisDates, write_ok \in BOOLEAN :
               run_save_results_to_json(date, write_ok)

Spec == Init /\ [][Next]_vars

\* generate_resumes for larger counts, with a remote endpoint that answers and
\* a disk that takes every file
NextGenerate ==
    \/ /\ pc = "idle"
       /\ \E n \in 0..MaxTierCount :
             \E shuffled \in shuffles(quality_levels_list(n)) :
               generate_resumes_Call(n, shuffled)
    \/ generate_resumes_Iterate(<< Prose >>, TRUE)
    \/ generate_resumes_Return

SpecGenerate == Init /\ [][NextGenerate]_vars

---------------------------------------------------------------------------
(* Properties *)

AnalyzeDone == op = "analyze_resume" /\ pc = "done"

TextInputs == resume_text.t = "str" /\ vacancy_text.t = "str"

\* What the code parsed out of the text generate_text returned
Parsed(response) ==
    json_loads(IF re_search_braces(response).st = "return"
               THEN re_search_braces(response).val
               ELSE text_strip(response))

ParsedObject(response) == Parsed(response).st = "return" /\ Parsed(response).val.t = "dict"

\* A justification the validation gate lets through: a non-empty str other
\* than the placeholder
ValidJustification(j) == j.t = "str" /\ j.v # << >> /\ j.v # Placeholder

\* C1: for every resume text, vacancy text and remote behaviour, analyze_resume
\* returns a result whose score is a number in [0,10] and whose justification
\* is non-empty.
C1_ScoreInRangeAndJustified ==
    (AnalyzeDone /\ TextInputs) =>
        /\ outcome.st = "return"
        /\ score_of(outcome.val).t = "num"
        /\ score_of(outcome.val).v >= 0
        /\ score_of(outcome.val).v <= 1000
        /\ Get(outcome.val, KeyJustification).t = "str"
        /\ Get(outcome.val, KeyJustification).v # << >>

\* C2: analyze_resume never raises to its caller, whatever the type of its
\* inputs and whatever the remote call does.
C2_NeverRaises == AnalyzeDone => outcome.st = "return"

\* C3: analyze_resumes completes without raising and returns one entry per
\* resume file, each carrying the file name of the resume it was computed from.
C3_BatchReturnsOneEntryPerFile ==
    (op = "analyze_resumes" /\ pc = "done") =>
        /\ ranked.st = "return"
        /\ Len(ranked.val) = Len(resume_files)
        /\ \A i \in 1..Len(resume_files) :
              \E j \in 1..Len(ranked.val) :
                  ranked.val[j] =
                      with_file_name(
                          analyze_resume(analyzed[i].resume, vacancy_text,
                                         analyzed[i].response).out.val,
                          resume_files[i])

\* The remote attempt is unusable: the text is empty, holds no JSON object,
\* does not parse, or parses to an object that lacks score or justification or
\* whose justification is empty.
RemoteUnusable(response) ==
    \/ response = << >>
    \/ \A i \in 1..Len(response) : ~(response[i].k = "json" /\ response[i].val.t = "dict")
    \/ Parsed(response).st = "raise"
    \/ /\ ParsedObject(response)
       /\ \/ ~HasKey(Parsed(response).val, KeyScore)
          \/ ~HasKey(Parsed(response).val, KeyJustification)
          \/ Get(Parsed(response).val, KeyJustification) = Str(<< >>)

\* C4: whenever the remote scoring attempt is unusable, analyze_resume returns
\* exactly what analyze_with_mock_llm returns for the same resume and vacancy.
C4_UnusableRemoteGivesFallback ==
    (AnalyzeDone /\ TextInputs /\ RemoteUnusable(gen_result.val)) =>
        outcome = analyze_with_mock_llm(resume_text, vacancy_text)

C4_Witness ==
    /\ AnalyzeDone
    /\ TextInputs
    /\ gen_result = Return(<< Scored(Num(800), Str(<< >>)) >>)
    /\ outcome = analyze_with_mock_llm(Str(ResumeSenior), vacancy_text)
    /\ score_of(outcome.val) = Num(475)

PlaceholderAnswered(response) ==
    /\ ParsedObject(response)
    /\ HasKey(Parsed(response).val, KeyJustification)
    /\ Get(Parsed(response).val, KeyJustification) = Str(Placeholder)

\* C5: if the parsed remote response has the justification "Python", with or
\* without a score, analyze_resume returns the fallback scorer's result and
\* never a result whose justification is "Python".
C5_PlaceholderGivesFallback ==
    (AnalyzeDone /\ outcome.st = "return" /\ PlaceholderAnswered(gen_result.val)) =>
        /\ Get(outcome.val, KeyJustification) # Str(Placeholder)
        /\ TextInputs => outcome = analyze_with_mock_llm(resume_text, vacancy_text)

C5_Witness ==
    /\ AnalyzeDone
    /\ TextInputs
    /\ gen_result = Return(<< Scored(Num(800), Str(Placeholder)) >>)
    /\ branch = "gate"
    /\ score_of(outcome.val) = Num(1000)

\* The strings of the samples that hold a number, with the number they hold
NumericStrings ==
    { << ScoreText75, 750 >>, << ScoreText15, 1500 >>, << ScoreTextPadded, 300 >> }

\* C6: if the response parses to an object whose score is a string holding a
\* number and whose justification is valid, the result's score is that number,
\* its justification is the one of the response and the fallback is not used.
C6_NumericStringScoreIsCoerced ==
    \A sn \in NumericStrings :
        ( /\ AnalyzeDone
          /\ gen_result.st = "return"
          /\ ParsedObject(gen_result.val)
          /\ HasKey(Parsed(gen_result.val).val, KeyScore)
          /\ HasKey(Parsed(gen_result.val).val, KeyJustification)
          /\ score_of(Parsed(gen_result.val).val) = Str(sn[1])
          /\ ValidJustification(Get(Parsed(gen_result.val).val, KeyJustification)) )
        =>
        /\ outcome.st = "return"
        /\ score_of(outcome.val) = Num(sn[2])
        /\ Get(outcome.val, KeyJustification)
               = Get(Parsed(gen_result.val).val, KeyJustification)
        /\ branch = "primary"

C6_Witness ==
    /\ AnalyzeDone
    /\ gen_result = Return(<< Scored(Str(ScoreText75), Ok) >>)
    /\ outcome = Return(AnalysisResult(Num(750), Ok))
    /\ branch = "primary"

\* C7: whenever analyze_resume returns the remote result, the response parsed,
\* its score is present and is a real number (as given or after coercion) and
\* its justification is present, non-empty and not the placeholder.
C7_AcceptedOnlyIfValid ==
    (AnalyzeDone /\ branch = "primary") =>
        /\ ParsedObject(gen_result.val)
        /\ HasKey(Parsed(gen_result.val).val, KeyScore)
        /\ HasKey(Parsed(gen_result.val).val, KeyJustification)
        /\ score_of(outcome.val).t = "num"
        /\ ValidJustification(Get(outcome.val, KeyJustification))

AllNumeric(rs) == \A i \in 1..Len(rs) : score_of(rs[i]).t = "num"

\* Position of entry e in the list rs (the entries of a list differ in file_name)
IndexIn(rs, e) == CHOOSE i \in 1..Len(rs) : rs[i] = e

\* out is rs sorted by score, descending, entries of equal score in input order
StablyRanked(rs, out) ==
    /\ Len(out) = Len(rs)
    /\ \A i \in 1..Len(rs) : \E j \in 1..Len(out) : out[j] = rs[i]
    /\ \A i, j \in 1..Len(out) :
          i < j =>
            /\ score_of(out[i]).v >= score_of(out[j]).v
            /\ score_of(out[i]).v = score_of(out[j]).v
                  => IndexIn(rs, out[i]) < IndexIn(rs, out[j])

\* C8: the ranked list is a permutation of the input with non-increasing
\* scores in which entries of equal score keep their input order, both in
\* select_top_candidates (asked for the whole list) and in analyze_resumes.
C8_RankingIsStableDescending ==
    /\ ( /\ op = "select_top_candidates"
         /\ pc = "done"
         /\ top_n >= Len(results) )
       => (ranked.st = "return" /\ StablyRanked(results, ranked.val))
    /\ ( /\ op = "analyze_resumes"
         /\ pc = "done"
         /\ ranked.st = "return"
         /\ AllNumeric(results) )
       => StablyRanked(results, ranked.val)

C8_Witness ==
    /\ op = "select_top_candidates"
    /\ pc = "done"
    /\ results = candidate_list(<< 300, 900, 900, 100 >>)
    /\ ranked.st = "return"
    /\ ranked.val = << results[2], results[3], results[1], results[4] >>

\* C9: select_top_candidates(results, N) returns the first min(N, len(results))
\* entries of the ranked list for every N >= 0, and the empty list for empty
\* results.
C9_TopNIsPrefixOfRanking ==
    (op = "select_top_candidates" /\ pc = "done") =>
        /\ ranked.st = "return"
        /\ Len(ranked.val) = Min2(top_n, Len(results))
        /\ \A i \in 1..Len(ranked.val) :
              ranked.val[i] = sorted_by_score_desc(results).val[i]
        /\ results = << >> => ranked.val = << >>

C9_Witness ==
    /\ op = "select_top_candidates"
    /\ pc = "done"
    /\ results = candidate_list(<< 300, 900, 900, 100 >>)
    /\ top_n = 2
    /\ ranked = Return(<< results[2], results[3] >>)

GenerateTextReturned == gen_result.st = "return"

AnsweredWithText ==
    /\ calls > 0
    /\ last_reply.kind = "text"
    /\ \E i \in 1..Len(last_reply.text) : last_reply.text[i] # Space

\* `out` is `text` without its leading and trailing whitespace
IsTrimmed(text, out) ==
    \E a, b \in 1..Len(text) :
        /\ out = SubSeq(text, a, b)
        /\ text[a] # Space
        /\ text[b] # Space
        /\ \A i \in 1..Len(text) : (i < a \/ i > b) => text[i] = Space

\* C11: in generate_text the first attempt whose response is not empty after
\* trimming ends the call: the loop is left, the trimmed text of that response
\* is what is returned, and after it there is no remote call and no wait (the
\* waits made are those of the attempts before it).
C11_FirstUsableReplyEndsCall ==
    AnsweredWithText =>
        /\ pc # "generate"
        /\ GenerateTextReturned
        /\ IsTrimmed(last_reply.text, gen_result.val)
        /\ Len(waits) = calls - 1
        /\ attempt = calls - 1

C11_Witness ==
    /\ op = "generate_text"
    /\ pc = "done"
    /\ max_retries = 4
    /\ calls = 2
    /\ Len(waits) = 1
    /\ last_reply = [kind |-> "text", text |-> << Space, Scored(Num(300), Ok), Space >>]
    /\ gen_result = Return(<< Scored(Num(300), Ok) >>)

\* Attempts of generate_text that failed so far
FailedAttempts == IF AnsweredWithText THEN calls - 1 ELSE calls

\* The waits are one per failed attempt, each made before the next attempt
WaitsFollowFailedAttempts ==
    /\ Len(waits) = FailedAttempts
    /\ (pc = "generate" /\ ~AnsweredWithText) => attempt = Len(waits)

\* C12 as stated: in generate_text every failed attempt i (counted from 0),
\* the last one included, is followed by exactly one wait w with
\* 2^i <= w < 2^i + 1 seconds, made before the next attempt or the return; the
\* waits are as many as the failed attempts, and a successful attempt adds none.
C12_WaitBelowNextSecond ==
    /\ WaitsFollowFailedAttempts
    /\ \A k \in 1..Len(waits) :
          /\ (2 ^ (k - 1)) * 1000 <= waits[k]
          /\ waits[k] < (2 ^ (k - 1) + 1) * 1000

\* C12 as amended: in generate_text every failed attempt i (counted from 0),
\* the last one included, is followed by exactly one wait w with
\* 2^i <= w <= 2^i + 1 seconds, made before the next attempt or the return; the
\* waits are as many as the failed attempts, and a successful attempt adds none.
C12_OneBackoffWaitPerFailedAttempt ==
    /\ WaitsFollowFailedAttempts
    /\ \A k \in 1..Len(waits) :
          /\ (2 ^ (k - 1)) * 1000 <= waits[k]
          /\ waits[k] <= (2 ^ (k - 1) + 1) * 1000

C12_Witness ==
    /\ op = "generate_text"
    /\ pc = "done"
    /\ max_retries = 4
    /\ calls = 4
    /\ waits = << 1999, 2000, 5000, 8000 >>
    /\ gen_result = Return(<< >>)

\* analyze_with_mock_llm was called with two texts
MockScorerDone ==
    /\ op = "analyze_with_mock_llm"
    /\ pc = "done"
    /\ TextInputs

\* The keywords of the fixed list that occur in the lower-cased resume
MatchedKeywords(resume) ==
    { k \in { key_techs[i] : i \in 1..Len(key_techs) } : Contains(lower(resume), k) }

\* clamp((matches / totalKeywords) * 6 + experienceLevel + educationLevel / 2,
\* 0, 10) rounded to 2 decimals, in hundredths
ClampedScore(matches, experienceLevel, educationLevel) ==
    LET totalKeywords == Len(key_techs)
        sum == RoundDiv(matches * 600 + (experienceLevel * 100 + educationLevel * 50)
                            * totalKeywords, totalKeywords)
    IN  IF sum < 0 THEN 0 ELSE IF sum > 1000 THEN 1000 ELSE sum

\* C13: for every resume the score of the keyword scorer is
\* clamp((matches / totalKeywords) * 6 + experienceLevel + educationLevel / 2,
\* 0, 10) rounded to 2 decimals, with matches the number of keywords of the
\* list that occur in the lower-cased resume, experienceLevel in 0..3 and
\* educationLevel in 0..2; so the score is in [0, 10].
C13_MockScoreFormula ==
    MockScorerDone =>
        /\ outcome.st = "return"
        /\ LET score == Get(outcome.val, KeyScore)
               experienceLevel == experience_level(lower(resume_text.v))
               educationLevel == education_level(lower(resume_text.v))
           IN  /\ experienceLevel \in 0..3
               /\ educationLevel \in 0..2
               /\ score = Num(ClampedScore(Cardinality(MatchedKeywords(resume_text.v)),
                                           experienceLevel, educationLevel))
               /\ score.v >= 0
               /\ score.v <= 1000

C13_Witness ==
    /\ MockScorerDone
    /\ resume_text = Str(ResumeMiddle)
    /\ Cardinality(MatchedKeywords(resume_text.v)) = 2
    /\ Get(outcome.val, KeyScore) = Num(300)

\* The resume with the markers "senior", "docker", "kubernetes", "python" and
\* "<magistr>" was scored
MarkersResumeScored == MockScorerDone /\ resume_text = Str(ResumeSenior)

\* C14 as stated: for the resume with exactly the markers "senior", "docker",
\* "kubernetes", "python" and "<magistr>" the score of the keyword scorer is
\* clamp((4 / totalKeywords) * 6 + 3 + 1, 0, 10) rounded to 2 decimals: the
\* match count used is 4.
C14_MarkersResumeCountsFour ==
    MarkersResumeScored => Get(outcome.val, KeyScore) = Num(ClampedScore(4, 3, 2))

\* C14 as amended: for that resume the score is
\* clamp((3 / totalKeywords) * 6 + 3 + 1, 0, 10) rounded to 2 decimals: the
\* match count used is 3, "senior" being a seniority marker and no keyword.
C14_MarkersResumeCountsThree ==
    MarkersResumeScored =>
        /\ Cardinality(MatchedKeywords(resume_text.v)) = 3
        /\ Get(outcome.val, KeyScore) = Num(ClampedScore(3, 3, 2))

C14_Witness ==
    /\ MarkersResumeScored
    /\ vacancy_text = Str(VacancyJava)
    /\ Get(outcome.val, KeyScore) = Num(475)

\* C15: the keyword scorer is total on texts: for every resume text and
\* vacancy text, the empty text included, it returns a result and does not
\* raise; for the empty resume the score is 0 and the justification is a
\* text that is not empty.
C15_MockScorerTotalOnTexts ==
    MockScorerDone =>
        /\ outcome.st = "return"
        /\ resume_text = Str(<< >>) =>
              /\ Get(outcome.val, KeyScore) = Num(0)
              /\ Get(outcome.val, KeyJustification).t = "str"
              /\ Get(outcome.val, KeyJustification).v # << >>

C15_Witness ==
    /\ MockScorerDone
    /\ resume_text = Str(<< >>)
    /\ outcome.st = "return"
    /\ Get(outcome.val, KeyScore) = Num(0)
    /\ Len(Get(outcome.val, KeyJustification).v) > 0

\* C17: every call of ResumeAnalyzer.analyze_resume that returns has made its
\* fixed pause of 3 seconds before, whichever path it took: the primary result
\* accepted, the fallback after the gate, the fallback after an exception.
C17_EveryReturnPauses ==
    (AnalyzeDone /\ outcome.st = "return") => sleeps = << 3 >>

\* The keyword scorer was run by this call of analyze_resume and raised
MockScorerRaised ==
    /\ AnalyzeDone
    /\ branch \notin { "raised", "primary" }
    /\ analyze_with_mock_llm(resume_text, vacancy_text).st = "raise"

EndsWith(s, tail) ==
    /\ Len(tail) <= Len(s)
    /\ SubSeq(s, Len(s) - Len(tail) + 1, Len(s)) = tail

\* C18: if the keyword scorer itself raises while analyze_resume handles a
\* resume (an argument of an unexpected type), analyze_resume catches it and
\* returns a result with score 0 whose justification carries the message of
\* the exception.
C18_ScorerFailureGivesZeroResult ==
    MockScorerRaised =>
        /\ outcome.st = "return"
        /\ Get(outcome.val, KeyScore) = Num(0)
        /\ Get(outcome.val, KeyJustification).t = "str"
        /\ EndsWith(Get(outcome.val, KeyJustification).v,
                    analyze_with_mock_llm(resume_text, vacancy_text).msg)

C18_Witness ==
    /\ MockScorerRaised
    /\ resume_text = Bytes(ResumePlain)
    /\ vacancy_text = Str(VacancyPython)
    /\ branch = "gate"
    /\ outcome = Return(AnalysisResult(Num(0), Str(FailedToAnalyze \o MsgBytesIn)))

\* C16: generate_resumes gives count resumes the tiers high = floor(0.2 *
\* count), medium = floor(0.5 * count), low = count - high - medium: the
\* counts sum to count, every index 0..count-1 gets exactly one tier, and the
\* tiers assigned are the same multiset whatever the shuffle (count = 10 gives
\* high 2, medium 5, low 3).
C16_TierCountsFixed ==
    op = "generate_resumes" =>
        LET high == Occurrences(quality_levels, "high")
            medium == Occurrences(quality_levels, "medium")
            low == Occurrences(quality_levels, "low")
        IN  /\ high = (2 * count) \div 10
            /\ medium = count \div 2
            /\ low = count - high - medium
            /\ high + medium + low = count
            /\ Len(quality_levels) = count
            /\ \A k \in 1..Len(generated) :
                  generated[k].quality_level = quality_levels[k]
            /\ count = 10 => << high, medium, low >> = << 2, 5, 3 >>

C16_Witness ==
    /\ op = "generate_resumes"
    /\ pc = "done"
    /\ count = 10
    /\ quality_levels = << "low", "medium", "high", "medium", "medium",
                           "low", "high", "medium", "low", "medium" >>
    /\ Len(generated) = 10
    /\ generated[3].quality_level = "high"

\* The generation of index k failed: no text came, or writing the file raised
GenerationFailed(k) == generated[k].text = << >> \/ ~generated[k].written

\* C19: in generate_resumes a resume whose generation fails (generate_text
\* exhausts its attempts and yields no text, or an exception occurs) is
\* skipped: its path is not in the list of created files, its index is tried
\* once only, and the loop goes on to the remaining indices.
C19_FailedGenerationSkipped ==
    op = "generate_resumes" =>
        /\ \A k \in 1..Len(generated) :
              /\ generated[k].file_name = resume_file_name(k)
              /\ GenerationFailed(k) =>
                    \A j \in 1..Len(resume_files) :
                        resume_files[j] # generated[k].file_name
        /\ Len(generated) <= count
        /\ pc = "done" => (Len(generated) = count /\ saved = Return(resume_files))

\* The writer `name` was given a list that is not empty and wrote its document
ReportWritten(name) ==
    /\ op = name
    /\ pc = "done"
    /\ results # << >>
    /\ saved.st = "return"
    /\ saved.val # PyNone

SameFileAndJustification(entry, result) ==
    /\ entry.d[KeyFileName] = result.d[KeyFileName]
    /\ entry.d[KeyJustification] = result.d[KeyJustification]

\* The texts of the formatted values of a document, in order
Values(document) ==
    LET v == SelectSeq(document, LAMBDA part : part.k = "val")
    IN  [i \in 1..Len(v) |-> v[i].s]

\* C20: for a ranked list that is not empty the JSON and the Markdown writer
\* pass the ranking through: best_candidate is the first entry of the list,
\* top_candidates is its prefix of length min(top_n, len(results)) in ranked
\* order, and file_name and justification of every entry written are those of
\* the ranked entry it stands for.
C20_WritersPassRankingThrough ==
    LET k == IF top_n < Len(results) THEN top_n ELSE Len(results)
    IN  /\ ReportWritten("save_results_to_json") =>
              /\ SameFileAndJustification(json_data.best_candidate, results[1])
              /\ Len(json_data.top_candidates) = k
              /\ \A i \in 1..k :
                    SameFileAndJustification(json_data.top_candidates[i], results[i])
        /\ ReportWritten("save_results_to_markdown") =>
              LET v == Values(markdown_content)
              IN  /\ Len(v) = 5 + 4 * k
                  /\ v[1] = results[1].d[KeyFileName].v
                  /\ v[3] = results[1].d[KeyJustification].v
                  /\ v[4] = str_int(k)
                  /\ \A i \in 1..k :
                        /\ v[4 * i + 1] = str_int(i)
                        /\ v[4 * i + 2] = results[i].d[KeyFileName].v
                        /\ v[4 * i + 4] = results[i].d[KeyJustification].v

C20_Witness ==
    /\ ReportWritten("save_results_to_json")
    /\ results = sorted_by_score_desc(candidate_list(<< 300, 900, 900, 100 >>)).val
    /\ top_n = 2
    /\ json_data.best_candidate.d[KeyFileName] = Str(resume_file_name(2))
    /\ Len(json_data.top_candidates) = 2
    /\ json_data.top_candidates[2].d[KeyFileName] = Str(resume_file_name(3))

\* The raw response opens with a JSON object that carries a number as score and
\* a valid justification, and text with a closing brace follows the object
ObjectThenClosingBrace(response) ==
    /\ Len(response) >= 2
    /\ response[1].k = "json"
    /\ response[1].val.t = "dict"
    /\ HasKey(response[1].val, KeyScore)
    /\ HasKey(response[1].val, KeyJustification)
    /\ score_of(response[1].val).t = "num"
    /\ ValidJustification(Get(response[1].val, KeyJustification))
    /\ \A i \in 2..Len(response) : response[i].k \in {"prose", "ws", "rbrace"}
    /\ \E i \in 2..Len(response) : response[i].k = "rbrace"

\* No "{" of the response has a "}" after it
NoBracePair(response) ==
    \A i, j \in 1..Len(response) :
        i <= j => ~(OpensBrace(response[i]) /\ ClosesBrace(response[j]))

\* The vacancy file or the resumes directory is missing
SetupMissing == disk.vacancy.st = "absent" \/ disk.resumes.st = "absent"

\* The last line of the log is the error line of run (line 304)
RunErrorLogged ==
    /\ log # << >>
    /\ log[Len(log)].level = "ERROR"
    /\ startswith(log[Len(log)].message, MainLogText.RunError)

\* C21: a run that finds the vacancy file or the resumes directory missing
\* where it opens or lists it does not go on to rank, display or save: it ends
\* with the error raised out of run (logged by line 304 first), and there is
\* no ranking, no results.md and no results.json of that run.
C21_MissingSetupFileIsFatal ==
    (op = "run" /\ SetupMissing) =>
        /\ pc \in { "run_generate", "run_analyze", "run_batch", "done" }
        /\ ranked = Absent
        /\ disk.markdown = Absent /\ disk.json = Absent
        /\ json_data = Absent /\ markdown_content = << >> /\ saved = Absent
        /\ pc = "done" =>
              /\ app_outcome.st = "raise"
              /\ RunErrorLogged

\* generate_data returned, the vacancy file was removed afterwards, and
\* analyze_resumes raised FileNotFoundError out of run
C21_Witness ==
    /\ op = "run" /\ pc = "done"
    /\ Len(data_calls) = 1 /\ data_calls[1].out.st = "return"
    /\ disk.vacancy.st = "absent" /\ disk.resumes.st = "return"
    /\ app_outcome = Raise("FileNotFoundError", MsgNoSuchFile)
    /\ ranked = Absent /\ disk.markdown = Absent /\ disk.json = Absent

\* run returned after analyzing at least one resume
RunCompleted ==
    /\ op = "run" /\ pc = "done"
    /\ app_outcome.st = "return"
    /\ results # << >>

\* C22: parse_log_file on the log of a completed run recovers one timing/score
\* pair for every analyzed resume, in the order of the analyses, with the
\* file name and the score of that resume, and the best candidate's file name
\* and score.
C22_LogRecoversEveryAnalysis ==
    RunCompleted =>
        LET data == parse_log_file(Return(log)).val
        IN  /\ Len(data.resume_analyses) = Len(results)
            /\ \A i \in 1..Len(results) :
                   i <= Len(data.resume_analyses) =>
                      /\ data.resume_analyses[i].resume = results[i].d[KeyFileName]
                      /\ data.resume_analyses[i].score.v = results[i].d[KeyScore].v
            /\ data.best_candidate = ranked.val[1].d[KeyFileName]
            /\ data.best_score.v = ranked.val[1].d[KeyScore].v

\* The same for the runs whose scores are all floats: these are recovered
C22_FloatScoresAreRecovered ==
    (RunCompleted /\ \A i \in 1..Len(results) : ~is_int(results[i].d[KeyScore])) =>
        LET data == parse_log_file(Return(log)).val
        IN  /\ Len(data.resume_analyses) = Len(results)
            /\ \A i \in 1..Len(results) :
                   /\ data.resume_analyses[i].resume = results[i].d[KeyFileName]
                   /\ data.resume_analyses[i].score.v = results[i].d[KeyScore].v
            /\ data.best_candidate = ranked.val[1].d[KeyFileName]
            /\ data.best_score.v = ranked.val[1].d[KeyScore].v

\* C23: the JSON extraction of LLMInterface.analyze_resume takes the first
\* balanced {...} substring: a response made of a valid object followed by text
\* with a closing brace is accepted as the primary result, and a response
\* without a brace pair is parsed whole after trimming.
C23_FirstBalancedObjectIsParsed ==
    (AnalyzeDone /\ TextInputs /\ gen_result.st = "return") =>
        /\ ObjectThenClosingBrace(gen_result.val) =>
              /\ branch = "primary"
              /\ outcome = Return(gen_result.val[1].val)
        /\ ( /\ NoBracePair(gen_result.val)
             /\ json_loads(text_strip(gen_result.val)).st = "raise" )
           => outcome = analyze_with_mock_llm(resume_text, vacancy_text)

\* The Fallback Scorer's tiers by priority, read off the lower-cased resume
PriorityTier(resume) ==
    LET text == lower(resume)
    IN  IF \E m \in Markers.Senior : Contains(text, m) THEN 3
        ELSE IF \E m \in Markers.Middle : Contains(text, m) THEN 2
        ELSE IF \E m \in Markers.Junior : Contains(text, m) THEN 1
        ELSE 0

\* The sentence of the justification that names a tier
TierSentence(tier) ==
    CASE tier = 3 -> JustificationText.Senior
      [] tier = 2 -> JustificationText.Middle
      [] tier = 1 -> JustificationText.Junior
      [] OTHER -> JustificationText.NoExperience

\* C24: the experience level of the Fallback Scorer is 3 if a senior marker
\* occurs in the resume, otherwise 2 if a middle marker occurs, otherwise 1 if
\* a junior marker occurs, otherwise 0 (senior and junior together give 3), and
\* the justification names the tier that was scored and no other.
C24_ExperienceTierByPriority ==
    MockScorerDone =>
        /\ outcome.st = "return"
        /\ LET tier == PriorityTier(resume_text.v)
               educationLevel == education_level(lower(resume_text.v))
           IN  /\ Get(outcome.val, KeyScore) =
                      Num(ClampedScore(Cardinality(MatchedKeywords(resume_text.v)),
                                       tier, educationLevel))
               /\ \A t \in 0..3 :
                      Contains(Get(outcome.val, KeyJustification).v, TierSentence(t))
                          <=> t = tier

C24_Witness ==
    /\ MockScorerDone
    /\ resume_text = Str(ResumeMixed)
    /\ Contains(lower(resume_text.v), << "j", "u", "n", "i", "o", "r" >>)
    /\ Contains(lower(resume_text.v), << "s", "e", "n", "i", "o", "r" >>)
    /\ Get(outcome.val, KeyScore) = Num(300)
    /\ Contains(Get(outcome.val, KeyJustification).v, JustificationText.Senior)

InInputOrder(rs) ==
    \A i \in 1..Len(rs) : rs[i].d[KeyFileName] = Str(resume_file_name(i))

BestCandidateDone == op = "select_best_candidate" /\ pc = "done"

\* C28: for a non-empty results list select_best_candidate returns the entry
\* select_top_candidates puts first for every n >= 1: an entry of maximum
\* score, the first such entry of the input; for an empty list it returns None;
\* the list handed in is not modified by either operation.
C28_BestIsFirstOfTop ==
    /\ BestCandidateDone =>
          /\ ranked.st = "return"
          /\ results = << >> => ranked.val = PyNone
          /\ results # << >> =>
                /\ \A n \in 1..(MaxTopN + 1) :
                      select_top_candidates(results, n).val[1] = ranked.val
                /\ \E i \in 1..Len(results) :
                      /\ results[i] = ranked.val
                      /\ \A j \in 1..Len(results) :
                            /\ score_of(results[j]).v <= score_of(results[i]).v
                            /\ score_of(results[j]).v = score_of(results[i]).v => i <= j
    /\ (pc = "done" /\ op \in {"select_best_candidate", "select_top_candidates"}) =>
          InInputOrder(results)

C28_Witness ==
    /\ BestCandidateDone
    /\ Len(results) = 3
    /\ score_of(results[1]) = Num(300)
    /\ score_of(results[2]) = Num(900)
    /\ score_of(results[3]) = Num(900)
    /\ ranked.val = results[2]
    /\ select_top_candidates(results, 1).val = << results[2] >>

\* The second half of C23 alone: a response without a brace pair is parsed
\* whole, and one that does not parse gives the Fallback Scorer's result
WholeResponseParsedWithoutBraces ==
    ( /\ AnalyzeDone
      /\ TextInputs
      /\ gen_result.st = "return"
      /\ NoBracePair(gen_result.val)
      /\ json_loads(text_strip(gen_result.val)).st = "raise" )
    => outcome = analyze_with_mock_llm(resume_text, vacancy_text)

\* Call k of generate_data returned
DataCallReturned(k) ==
    /\ op = "generate_data"
    /\ k <= Len(data_calls)
    /\ data_calls[k].out.st = "return"

\* C26: generate_data never overwrites an existing resume file: whatever the
\* resumes directory holds before the call, numbering with gaps included, every
\* file generate_resumes writes has a name that was not in the directory
\* before the call.
C26_WrittenNamesAreNew ==
    \A k \in 1..MaxDataCalls :
        DataCallReturned(k) =>
            \A i \in 1..Len(data_calls[k].written) :
                data_calls[k].written[i] \notin DOMAIN data_calls[k].before.resumes.val

\* Every generation of call k succeeded: each text is non-empty and written
AllGenerationsSucceeded(k) ==
    /\ data_calls[k].vacancy_gen.st = "return" =>
          /\ data_calls[k].vacancy_gen.val.write_ok
          /\ data_calls[k].vacancy_gen.val.text # Str(<< >>)
    /\ \A i \in 1..Len(data_calls[k].gens) :
          /\ data_calls[k].gens[i].write_ok
          /\ data_calls[k].gens[i].text # Str(<< >>)

\* C27: after generate_data has returned with every generation succeeded, the
\* directory holds at least num_resumes resume files, and a second call that
\* follows at once generates no resume and leaves the vacancy file and the
\* resume files as they are.
C27_SecondCallGeneratesNothing ==
    (DataCallReturned(1) /\ AllGenerationsSucceeded(1)) =>
        /\ existing_resumes(data_calls[1].before) < num_resumes =>
              Len(data_calls[1].written) = num_resumes - existing_resumes(data_calls[1].before)
        /\ Len(data_calls) = 1 => existing_resumes(disk) >= num_resumes
        /\ DataCallReturned(2) =>
              /\ data_calls[2].written = << >>
              /\ disk = data_calls[2].before

\* parse_log_file has read a log file
ParseDone ==
    /\ op = "parse_log_file"
    /\ pc = "done"
    /\ log_data.st = "return"
    /\ log_data.val # PyNone

\* Line i of the file is the progress line of the program that names file f
NamesResume(i, f) ==
    /\ log[i].stamped
    /\ \E k, n \in 1..MaxLogLines : log[i].message = analysis_progress_message(k, n, f)

NamedFiles == { resume_file_name(k) : k \in 1..MaxLogLines }

IsNameLine(i) == \E f \in NamedFiles : NamesResume(i, f)

\* Scores as the program prints them with a decimal point, in hundredths
DecimalScores == { 750, 900 }

\* Line i is the line of a finished analysis that took e and gave score s
IsTimingOf(i, e, s) ==
    /\ log[i].stamped
    /\ log[i].message = analysis_done_message(e, AnalysisResult(Num(s), Ok))

IsTimingLine(i) == \E e \in ElapsedTimes, s \in DecimalScores : IsTimingOf(i, e, s)

\* Line i announces file f as the best candidate with score s
IsBestOf(i, f, s) ==
    /\ log[i].stamped
    /\ log[i].message =
           best_candidate_message(with_file_name(AnalysisResult(Num(s), Ok), f))

IsBestLine(i) == \E f \in NamedFiles, s \in DecimalScores : IsBestOf(i, f, s)

\* The latest name line before line i, 0 if there is none
LastNameBefore(i) ==
    LET named == { j \in 1..(i - 1) : IsNameLine(j) }
    IN  IF named = {} THEN 0 ELSE SetMax(named)

\* The timing lines that have a name line before them, and the k-th of them
AttributedLines == { i \in 1..Len(log) : IsTimingLine(i) /\ LastNameBefore(i) # 0 }

NthAttributed(k) ==
    CHOOSE i \in AttributedLines : Cardinality({ j \in AttributedLines : j < i }) = k - 1

\* C29: parse_log_file attributes every timing/score line to the resume named
\* by the latest resume-name line before it: a timing/score line before any
\* resume-name line is dropped, a resume-name line without a timing/score line
\* after it gives no entry, and best_candidate and best_score are those of the
\* last best-candidate line.
C29_TimingGoesToLatestNamedResume ==
    ParseDone =>
        /\ Len(log_data.val.resume_analyses) = Cardinality(AttributedLines)
        /\ \A k \in 1..Len(log_data.val.resume_analyses) :
              LET i == NthAttributed(k)
                  entry == log_data.val.resume_analyses[k]
              IN  /\ NamesResume(LastNameBefore(i), entry.resume.v)
                  /\ IsTimingOf(i, entry.time.v, entry.score.v)
        /\ LET bests == { i \in 1..Len(log) : IsBestLine(i) }
           IN  IF bests = {}
               THEN /\ log_data.val.best_candidate = PyNone
                    /\ log_data.val.best_score.v = 0
               ELSE IsBestOf(SetMax(bests), log_data.val.best_candidate.v,
                             log_data.val.best_score.v)

C29_Witness ==
    /\ ParseDone
    /\ Len(log) = 3
    /\ NamesResume(1, resume_file_name(1))
    /\ NamesResume(2, resume_file_name(2))
    /\ IsTimingOf(3, 1234, 750)
    /\ log_data.val.resume_analyses =
           << [resume |-> Str(resume_file_name(2)), time |-> Num(1234),
               score |-> Num(750)] >>

=============================================================================
